---- MODULE Spec2Model ----
(***************************************************************************)
(* A model of the tera control plane: the master's SST garbage collection  *)
(* (src/master/gc_strategy.cc), the tablet status machine                  *)
(* (src/master/tablet_manager.h) and the SDK's request pipeline and        *)
(* meta cache (src/sdk/table_impl.cc).                                     *)
(*                                                                         *)
(* Each subsystem has its own specification over its own variables; the    *)
(* variables of the other subsystems are held at their idle value.         *)
(***************************************************************************)
EXTENDS Integers, Sequences, FiniteSets, TLC

(***************************************************************************)
(* Bounds of the model.                                                    *)
(***************************************************************************)
MaxTablet == 4
MaxTime == 2

Min(a, b) == IF a < b THEN a ELSE b
Restrict(f, S) == [x \in S |-> f[x]]

(***************************************************************************)
(*                    PART I  --  garbage collection                       *)
(*                                                                         *)
(* One enabled user table.  Tablets are numbered 1..MaxTablet.  A file is  *)
(* <<tablet, lg, n>>: file n of locality group lg in the directory of      *)
(* tablet; <<tablet, n>> is its "full file number".                        *)
(***************************************************************************)
Tablets == 1..MaxTablet
Lgs == {0, 1}
FileNos == {1}
Servers == {"ts1", "ts2"}
Files == Tablets \X Lgs \X FileNos
OwnFiles(t) == {f \in Files : f[1] = t}
FullNumber(f) == <<f[1], f[3]>>
max_ts_ == MaxTime + 1

VARIABLES
    strategy,            \* "batch" or "incr": the GcStrategy the master runs
    now,                 \* get_micros() / 1000000
    tstate,              \* tablet -> "unborn" | "loading" | "ready" | "dead"
    tserver,             \* tablet -> the server it is assigned to
    inh,                 \* live tablet -> the files it inherits (its claim)
    tdirs,               \* tablets whose directory exists
    lgdirs,              \* <<tablet, lg>> whose directory exists
    disk,                \* files that exist
    deleted,             \* files ever passed to env->DeleteFile by the GC
    gc_crashed,          \* a CHECK of the GC failed
    gc_tablets_,         \* BatchGcStrategy::gc_tablets_ (entry of the table)
    gc_live_files_,      \* BatchGcStrategy::gc_live_files_ (entry of the table)
    dead_tablet_files_,  \* IncrementalGcStrategy::dead_tablet_files_
    live_tablet_files_   \* IncrementalGcStrategy::live_tablet_files_

envVars == <<now, tstate, tserver, inh>>
fsVars == <<tdirs, lgdirs, disk, deleted>>
batchVars == <<gc_tablets_, gc_live_files_>>
incVars == <<dead_tablet_files_, live_tablet_files_>>
gcVars == <<strategy, envVars, fsVars, gc_crashed, batchVars, incVars>>

VARIABLES
    async_blocking,               \* FLAGS_tera_sdk_async_blocking_enabled
    clock,                        \* get_micros() / 1000
    task,                         \* task id -> the SdkTask object
    next_task_id_,                \* TableImpl::next_task_id_
    task_pool_,                   \* ids of the tasks in TableImpl::task_pool_
    blocked,                      \* ids whose caller sleeps in the flow control loop
    cur_commit_pending_counter_,  \* TableImpl::cur_commit_pending_counter_
    cur_reader_pending_counter_,  \* TableImpl::cur_reader_pending_counter_
    tablet_meta_list_,            \* start key -> TabletMetaNode
    pending_task_id_list_,        \* row -> ids waiting for the meta of the row
    meta_updating_count_,         \* TableImpl::meta_updating_count_
    mutation_batch_map_,          \* server -> TaskBatch of mutations
    reader_batch_map_,            \* server -> TaskBatch of readers
    mutation_batch_seq_,          \* TableImpl::mutation_batch_seq_
    reader_batch_seq_,            \* TableImpl::reader_batch_seq_
    rpcs,                         \* write, read and scan RPCs in flight
    meta_scans,                   \* scans of the meta table in flight
    delay_tasks,                  \* tasks waiting in thread_pool_
    stale_sent,                   \* history: ids given the address of a faulted node
    sdk_aborted,                  \* the process of the SDK has aborted
    meta_table,                   \* the tablets of the table in the meta table
    fails_left,                   \* the failed answers the servers may still give
    answer,                       \* history: the RPC answered in the last step
    root_table_addr,              \* what cluster_->RootTableAddr(true) returns
    root_empty_count,             \* history: times in a row ScanMetaTableAsync found no root
    meta_callers,                 \* callers waiting inside ScanMetaTable
    table_meta_updating_,         \* TableImpl::table_meta_updating_
    ret_err,                      \* the ErrorCode UpdateTableMeta hands to the read
    table_reads,                  \* reads of the table meta in flight
    lk_key,                       \* the key of a cache lookup
    lk_result,                    \* the node the lookup returned
    tablet_status,                \* Tablet::meta_.status()
    tablet_addr,                  \* Tablet::meta_.server_addr()
    tablet_call                   \* the last call on the tablet and what it returned

VARIABLES
    gc_mutex_,                    \* the thread that holds GcStrategy::gc_mutex_, or ""
    gc_pc                         \* thread -> the GcStrategy method it is inside, or ""

VARIABLES
    zk,                           \* the coordination store: nodes, watches, events, session
    ts_node                       \* the tablet server process and its adapter

VARIABLES
    online_schema_update_enabled, \* FLAGS_tera_online_schema_update_enabled
    master_table,                 \* the table as the master holds it
    update_call                   \* the last ClientImpl::UpdateTable and what it did

VARIABLES
    fa_start,                     \* the start key handed to FindAverageKey
    fa_end,                       \* the end key handed to FindAverageKey
    fa_out                        \* what FindAverageKey returned, and *res

VARIABLES
    tio_files,                    \* tablet number -> the entries in the files of its directory
    tio_tablets,                  \* TabletIO object -> its range, directory, lineage, memtable
    tio_split,                    \* what TabletIO::Split of the parent returned
    tio_read,                     \* the last TabletIO::Read and what it returned
    tio_written                   \* key -> the value last written, or "" when none or deleted

flowVars == <<cur_commit_pending_counter_, cur_reader_pending_counter_, blocked>>
taskVars == <<task, next_task_id_, task_pool_>>
metaVars == <<tablet_meta_list_, pending_task_id_list_, meta_updating_count_, meta_scans,
              root_table_addr, root_empty_count>>
openVars == <<meta_callers, table_meta_updating_, ret_err, table_reads>>
packVars == <<mutation_batch_map_, reader_batch_map_, mutation_batch_seq_, reader_batch_seq_>>
lkVars == <<lk_key, lk_result>>
tabletVars == <<tablet_status, tablet_addr, tablet_call>>
lockVars == <<gc_mutex_, gc_pc>>
coordVars == <<zk, ts_node>>
clientVars == <<online_schema_update_enabled, master_table, update_call>>
avgVars == <<fa_start, fa_end, fa_out>>
tioVars == <<tio_files, tio_tablets, tio_split, tio_read, tio_written>>
moreVars == <<lockVars, coordVars, clientVars, avgVars, tioVars>>
offVars == <<lkVars, tabletVars, moreVars>>
sdkVars == <<async_blocking, clock, sdk_aborted, meta_table, fails_left, answer, taskVars, flowVars,
             metaVars, packVars, rpcs, delay_tasks, stale_sent, openVars>>
lockRest == <<gcVars, sdkVars, lkVars, tabletVars, coordVars, clientVars, avgVars, tioVars>>
coordRest == <<gcVars, sdkVars, lkVars, tabletVars, lockVars, clientVars, avgVars, tioVars>>
clientRest == <<gcVars, sdkVars, lkVars, tabletVars, lockVars, coordVars, avgVars, tioVars>>
avgRest == <<gcVars, sdkVars, lkVars, tabletVars, lockVars, coordVars, clientVars, tioVars>>
tioRest == <<gcVars, sdkVars, lkVars, tabletVars, lockVars, coordVars, clientVars, avgVars>>
vars == <<gcVars, sdkVars, offVars>>

Live == {t \in Tablets : tstate[t] \in {"loading", "ready"}}
NoTable == [present |-> FALSE]

(* The environment: time, compaction, split, load. *)
Tick ==
    /\ now < MaxTime
    /\ now' = now + 1
    /\ UNCHANGED <<strategy, tstate, tserver, inh, fsVars, gc_crashed, batchVars, incVars>>
    /\ UNCHANGED <<sdkVars, offVars>>

(* A compaction of a live tablet rewrites an inherited file into its own   *)
(* directory: the tablet stops claiming the file.                          *)
CompactTablet(t, f) ==
    /\ tstate[t] = "ready"
    /\ f \in inh[t]
    /\ inh' = [inh EXCEPT ![t] = @ \ {f}]
    /\ UNCHANGED <<strategy, now, tstate, tserver, fsVars, gc_crashed, batchVars, incVars>>
    /\ UNCHANGED <<sdkVars, offVars>>

(* Split: the parent is unloaded and leaves meta, two children with fresh  *)
(* tablet numbers are created, the first on the parent's server and the    *)
(* second on server s; they inherit the parent's files and what the parent *)
(* inherited.                                                              *)
SplitTablet(t, s) ==
    LET c1 == CHOOSE c \in Tablets : tstate[c] = "unborn" /\ \A d \in Tablets : tstate[d] = "unborn" => c <= d
        c2 == c1 + 1
        own == OwnFiles(t)
        files == inh[t] \cup own
    IN  /\ tstate[t] = "ready"
        /\ \E c \in Tablets : tstate[c] = "unborn"
        /\ c2 \in Tablets
        /\ tstate[c2] = "unborn"
        /\ tstate' = [tstate EXCEPT ![t] = "dead", ![c1] = "loading", ![c2] = "loading"]
        /\ tserver' = [tserver EXCEPT ![c1] = tserver[t], ![c2] = s]
        /\ inh' = [inh EXCEPT ![t] = {}, ![c1] = files, ![c2] = files]
        /\ tdirs' = tdirs \cup {c1, c2}
        /\ lgdirs' = lgdirs \cup {<<f[1], f[2]>> : f \in own}
        /\ disk' = disk \cup own
        /\ UNCHANGED <<strategy, now, deleted, gc_crashed, batchVars, incVars>>
        /\ UNCHANGED <<sdkVars, offVars>>

LoadTablet(t) ==
    /\ tstate[t] = "loading"
    /\ tstate' = [tstate EXCEPT ![t] = "ready"]
    /\ UNCHANGED <<strategy, now, tserver, inh, fsVars, gc_crashed, batchVars, incVars>>
    /\ UNCHANGED <<sdkVars, offVars>>

(* The query response of server s: the tablets it serves, and the table's  *)
(* inherited-file list, which the server leaves out while one of its       *)
(* tablets of the table is not ready.                                      *)
ResponseMeta(s) == {t \in Tablets : tstate[t] = "ready" /\ tserver[t] = s}
ResponseHasInh(s) ==
    /\ ResponseMeta(s) # {}
    /\ \A t \in Tablets : tserver[t] = s => tstate[t] # "loading"
ResponseInh(s) == UNION {inh[t] : t \in ResponseMeta(s)}

(* Table::GetTabletsForGc: the live tablets up to the first one that is    *)
(* not ready, and, when all are ready, the directories without a record.   *)
GcAllReady == \A t \in Live : tstate[t] = "ready"
GcLiveTablets == {t \in Live : \A u \in Live : u <= t => tstate[u] = "ready"}
GcDeadTablets == IF GcAllReady THEN tdirs \ Live ELSE {}
GetTabletsForGc == GcAllReady /\ GcDeadTablets # {}

SstOf(t, lg) == {f \in disk : f[1] = t /\ f[2] = lg}
LgDirsOf(t) == {lg \in Lgs : <<t, lg>> \in lgdirs}

(***************************************************************************)
(* BatchGcStrategy                                                         *)
(***************************************************************************)
(* CollectDeadTabletsFiles / CollectSingleDeadTablet: an empty tablet      *)
(* directory is removed; otherwise its empty lg directories are removed    *)
(* and the SST files of the others become deletion candidates.             *)
BatchEmptyTabletDirs(dead) == {t \in dead : LgDirsOf(t) = {}}
BatchEmptyLgDirs(dead) ==
    {d \in lgdirs : d[1] \in dead /\ SstOf(d[1], d[2]) = {}}
BatchCollected(dead) ==
    [lg \in Lgs |-> {FullNumber(f) : f \in {g \in disk : g[1] \in dead /\ g[2] = lg}}]

BatchPreQuery ==
    /\ strategy = "batch"
    /\ ~gc_crashed
    /\ LET ok == GetTabletsForGc
           dead == IF ok THEN GcDeadTablets ELSE {}
           files == BatchCollected(dead)
       IN  /\ gc_tablets_' = IF ok
                             THEN [present |-> TRUE, first |-> GcLiveTablets, second |-> dead]
                             ELSE NoTable
           /\ gc_live_files_' = IF \E lg \in Lgs : files[lg] # {}
                                THEN [present |-> TRUE, files |-> files]
                                ELSE NoTable
           /\ tdirs' = tdirs \ BatchEmptyTabletDirs(dead)
           /\ lgdirs' = lgdirs \ BatchEmptyLgDirs(dead)
    /\ UNCHANGED <<strategy, envVars, disk, deleted, gc_crashed, incVars>>
    /\ UNCHANGED <<sdkVars, offVars>>

(* A reported tablet leaves the waiting set only when the response also    *)
(* carries the table's inherited-file list.                                *)
BatchEraseLive(s) ==
    IF gc_tablets_.present /\ ResponseHasInh(s)
    THEN [gc_tablets_ EXCEPT !.first = @ \ ResponseMeta(s)]
    ELSE gc_tablets_

BatchEraseInherited(s) ==
    IF gc_live_files_.present /\ ResponseHasInh(s)
    THEN [gc_live_files_ EXCEPT !.files =
            [lg \in Lgs |-> @[lg] \ {FullNumber(f) : f \in {g \in ResponseInh(s) : g[2] = lg}}]]
    ELSE gc_live_files_

BatchProcessQueryCallbackForGc(s) ==
    /\ strategy = "batch"
    /\ ~gc_crashed
    /\ gc_tablets_' = BatchEraseLive(s)
    /\ gc_live_files_' = BatchEraseInherited(s)
    /\ UNCHANGED <<strategy, envVars, fsVars, gc_crashed, incVars>>
    /\ UNCHANGED <<sdkVars, offVars>>

(* The slip: PostQuery does not look at the tablets still waited for.     *)
BatchIsSuccess_Always == TRUE

(* PostQuery: is_success *)
BatchIsSuccess == ~(gc_tablets_.present /\ gc_tablets_.first # {})

(* The slip: only the files of locality group 0 are deleted.               *)
BatchObsoleteFiles_Lg0 ==
    IF gc_live_files_.present
    THEN {f \in Files : f[2] = 0 /\ FullNumber(f) \in gc_live_files_.files[f[2]]}
    ELSE {}

(* DeleteObsoleteFiles *)
BatchObsoleteFiles ==
    IF gc_live_files_.present
    THEN {f \in Files : FullNumber(f) \in gc_live_files_.files[f[2]]}
    ELSE {}

BatchPostQuery ==
    /\ strategy = "batch"
    /\ ~gc_crashed
    /\ LET del == IF BatchIsSuccess THEN BatchObsoleteFiles ELSE {}
       IN  /\ deleted' = deleted \cup del
           /\ disk' = disk \ del
    /\ UNCHANGED <<strategy, envVars, tdirs, lgdirs, gc_crashed, batchVars, incVars>>
    /\ UNCHANGED <<sdkVars, offVars>>

(***************************************************************************)
(* IncrementalGcStrategy                                                   *)
(***************************************************************************)
NoFiles == [present |-> FALSE, tablets |-> <<>>]

(* The slip: only the directory of locality group 0 is enumerated.         *)
IncCollected_Lg0(t) ==
    [lg \in LgDirsOf(t) \cap {0} |->
        [storage |-> {FullNumber(f) : f \in SstOf(t, lg)}, live |-> {}]]

(* CollectSingleDeadTablet: one entry per lg directory, with its SSTs. *)
IncCollected(t) ==
    [lg \in LgDirsOf(t) |->
        [storage |-> {FullNumber(f) : f \in SstOf(t, lg)}, live |-> {}]]

IncPreQuery ==
    /\ strategy = "incr"
    /\ ~gc_crashed
    /\ LET old == dead_tablet_files_.tablets
           newDead == GcDeadTablets \ DOMAIN old
           dtabs == [t \in DOMAIN old \cup newDead |->
                        IF t \in DOMAIN old THEN old[t]
                        ELSE [dead_time |-> now, files |-> IncCollected(t)]]
           oldlive == live_tablet_files_.tablets
           kept == DOMAIN oldlive \ DOMAIN dtabs
       IN  /\ dead_tablet_files_' = [present |-> TRUE, tablets |-> dtabs]
           /\ live_tablet_files_' =
                [present |-> TRUE,
                 tablets |-> [t \in kept \cup GcLiveTablets |->
                                 IF t \in kept THEN oldlive[t] ELSE 0]]
    /\ UNCHANGED <<strategy, envVars, fsVars, gc_crashed, batchVars>>
    /\ UNCHANGED <<sdkVars, offVars>>

(* What PreQuery returns: dead_tablet_files_.size() != 0, the number of    *)
(* tables with an entry, after the entry of the table was inserted.        *)
IncPreQueryReturns(table_files) == table_files.present

(* The files of a response that belong to a tracked dead tablet. *)
IncReported(s) ==
    IF live_tablet_files_.present /\ ResponseHasInh(s)
    THEN {f \in ResponseInh(s) : f[1] \in DOMAIN dead_tablet_files_.tablets}
    ELSE {}

(* CHECK(check.storage_files_.find(file_number) != end) *)
IncInsertOk(f) ==
    LET lgs == dead_tablet_files_.tablets[f[1]].files
    IN  f[2] \in DOMAIN lgs /\ FullNumber(f) \in lgs[f[2]].storage

IncReadyTime(s) ==
    IF live_tablet_files_.present /\ ResponseHasInh(s)
    THEN [live_tablet_files_ EXCEPT !.tablets =
            [t \in DOMAIN @ |-> IF t \in ResponseMeta(s) THEN now ELSE @[t]]]
    ELSE live_tablet_files_

IncInsertLive(s) ==
    [dead_tablet_files_ EXCEPT !.tablets =
        [t \in DOMAIN @ |->
            [@[t] EXCEPT !.files =
                [lg \in DOMAIN @ |->
                    [@[lg] EXCEPT !.live = @ \cup
                        {FullNumber(f) : f \in {g \in IncReported(s) : g[1] = t /\ g[2] = lg}}]]]]]

IncProcessQueryCallbackForGc(s) ==
    /\ strategy = "incr"
    /\ ~gc_crashed
    /\ live_tablet_files_' = IncReadyTime(s)
    /\ IF \A f \in IncReported(s) : IncInsertOk(f)
       THEN /\ dead_tablet_files_' = IncInsertLive(s)
            /\ UNCHANGED gc_crashed
       ELSE /\ gc_crashed' = TRUE
            /\ UNCHANGED dead_tablet_files_
    /\ UNCHANGED <<strategy, envVars, fsVars, batchVars>>
    /\ UNCHANGED <<sdkVars, offVars>>

IncClear ==
    /\ strategy = "incr"
    /\ ~gc_crashed
    /\ dead_tablet_files_.present
    /\ dead_tablet_files_' = NoFiles
    /\ live_tablet_files_' = NoFiles
    /\ UNCHANGED <<strategy, envVars, fsVars, gc_crashed, batchVars>>
    /\ UNCHANGED <<sdkVars, offVars>>

(* DeleteTableFiles *)
IncEarliestReadyTime ==
    LET lt == live_tablet_files_.tablets
    IN  IF DOMAIN lt = {} THEN max_ts_
        ELSE CHOOSE m \in {lt[t] : t \in DOMAIN lt} : \A t \in DOMAIN lt : m <= lt[t]

(* The slip: a dead tablet qualifies when dead_time_ <= earliest_ready_time. *)
IncGcTablets_Le ==
    {t \in DOMAIN dead_tablet_files_.tablets :
        dead_tablet_files_.tablets[t].dead_time <= IncEarliestReadyTime}

IncGcTablets ==
    {t \in DOMAIN dead_tablet_files_.tablets :
        dead_tablet_files_.tablets[t].dead_time < IncEarliestReadyTime}

(* What DeleteTableFiles passes to env->DeleteFile for lg entry e. *)
IncDeleteSet(e) == e.storage \ e.live

IncDeletedFiles ==
    {f \in Files :
        /\ f[1] \in IncGcTablets
        /\ f[2] \in DOMAIN dead_tablet_files_.tablets[f[1]].files
        /\ FullNumber(f) \in IncDeleteSet(dead_tablet_files_.tablets[f[1]].files[f[2]])}

(* The slip: an lg entry left without storage files stays.                 *)
IncKeptLgs_All(t) == DOMAIN dead_tablet_files_.tablets[t].files

IncKeptLgs(t) ==
    LET fs == dead_tablet_files_.tablets[t].files
    IN  {lg \in DOMAIN fs : fs[lg].storage \ IncDeleteSet(fs[lg]) # {}}

(* assert(0): an emptied lg that still has live files *)
IncAssertFails ==
    \E t \in IncGcTablets :
        LET fs == dead_tablet_files_.tablets[t].files
        IN  \E lg \in DOMAIN fs \ IncKeptLgs(t) : fs[lg].live # {}

(* The slip: the tablets that stay keep their dead_time_.                  *)
IncAfterDelete_Stale ==
    LET old == dead_tablet_files_.tablets
        gone == {t \in IncGcTablets : IncKeptLgs(t) = {}}
    IN  [t \in DOMAIN old \ gone |->
            IF t \in IncGcTablets
            THEN [dead_time |-> old[t].dead_time,
                  files |-> [lg \in IncKeptLgs(t) |->
                                [storage |-> old[t].files[lg].storage \ IncDeleteSet(old[t].files[lg]),
                                 live |-> {}]]]
            ELSE old[t]]

IncAfterDelete ==
    LET old == dead_tablet_files_.tablets
        gone == {t \in IncGcTablets : IncKeptLgs(t) = {}}
    IN  [t \in DOMAIN old \ gone |->
            IF t \in IncGcTablets
            THEN [dead_time |-> now,
                  files |-> [lg \in IncKeptLgs(t) |->
                                [storage |-> old[t].files[lg].storage \ IncDeleteSet(old[t].files[lg]),
                                 live |-> {}]]]
            ELSE old[t]]

IncPostQuery ==
    /\ strategy = "incr"
    /\ ~gc_crashed
    /\ dead_tablet_files_.present
    /\ IF IncAssertFails
       THEN /\ gc_crashed' = TRUE
            /\ UNCHANGED <<fsVars, incVars>>
       ELSE /\ deleted' = deleted \cup IncDeletedFiles
            /\ disk' = disk \ IncDeletedFiles
            /\ lgdirs' = lgdirs \ {d \in lgdirs : d[1] \in IncGcTablets
                                      /\ d[2] \in DOMAIN dead_tablet_files_.tablets[d[1]].files
                                      /\ d[2] \notin IncKeptLgs(d[1])}
            /\ tdirs' = tdirs \ {t \in IncGcTablets : IncKeptLgs(t) = {}}
            /\ dead_tablet_files_' = [dead_tablet_files_ EXCEPT !.tablets = IncAfterDelete]
            /\ UNCHANGED <<live_tablet_files_, gc_crashed>>
    /\ UNCHANGED <<strategy, envVars, batchVars>>
    /\ UNCHANGED <<sdkVars, offVars>>

(***************************************************************************)
(*              PART II  --  the SDK: meta cache and requests              *)
(*                                                                         *)
(* A key is a sequence of characters (small naturals); <<>> is "" and      *)
(* character 0 is '\0'.  Keys are ordered as std::string orders them.      *)
(***************************************************************************)
RECURSIVE KeyLess(_, _)
KeyLess(a, b) ==
    IF a = <<>> THEN b # <<>>
    ELSE IF b = <<>> THEN FALSE
    ELSE IF Head(a) < Head(b) THEN TRUE
    ELSE IF Head(a) > Head(b) THEN FALSE
    ELSE KeyLess(Tail(a), Tail(b))
KeyLeq(a, b) == a = b \/ KeyLess(a, b)
MinKey(S) == CHOOSE k \in S : \A j \in S : KeyLeq(k, j)
MaxKey(S) == CHOOSE k \in S : \A j \in S : KeyLeq(j, k)
RECURSIVE SortKeys(_)
SortKeys(S) == IF S = {} THEN <<>> ELSE <<MinKey(S)>> \o SortKeys(S \ {MinKey(S)})

(* Iterators of a std::map keyed by keys: end(), or the element at a key.  *)
EndIt == [at_end |-> TRUE]
ItAt(k) == [at_end |-> FALSE, key |-> k]
BeginIt(m) == IF DOMAIN m = {} THEN EndIt ELSE ItAt(MinKey(DOMAIN m))
UpperBound(m, k) ==
    LET above == {s \in DOMAIN m : KeyLess(k, s)}
    IN  IF above = {} THEN EndIt ELSE ItAt(MinKey(above))
LowerBound(m, k) ==
    LET above == {s \in DOMAIN m : KeyLeq(k, s)}
    IN  IF above = {} THEN EndIt ELSE ItAt(MinKey(above))
PrevIt(m, it) ==
    IF it.at_end THEN ItAt(MaxKey(DOMAIN m))
    ELSE ItAt(MaxKey({s \in DOMAIN m : KeyLess(s, it.key)}))

NullNode == [found |-> FALSE]
FoundNode(k) == [found |-> TRUE, start |-> k]

(* The off-by-one slip: a key equal to the end of the range is accepted.   *)
GetTabletMetaNodeForKey_Lt(list, key) ==
    IF DOMAIN list = {} THEN NullNode
    ELSE LET it == UpperBound(list, key)
         IN  IF it = BeginIt(list) THEN NullNode
             ELSE LET prev == PrevIt(list, it).key
                      end_key == list[prev].key_end
                  IN  IF end_key # <<>> /\ KeyLess(end_key, key)
                      THEN NullNode
                      ELSE FoundNode(prev)

GetTabletMetaNodeForKey(list, key) ==
    IF DOMAIN list = {} THEN NullNode
    ELSE LET it == UpperBound(list, key)
         IN  IF it = BeginIt(list) THEN NullNode
             ELSE LET prev == PrevIt(list, it).key
                      end_key == list[prev].key_end
                  IN  IF end_key # <<>> /\ KeyLeq(end_key, key)
                      THEN NullNode
                      ELSE FoundNode(prev)

(***************************************************************************)
(* Tasks, flags and status codes.  The flags are scaled to the bounds of   *)
(* the model.                                                              *)
(***************************************************************************)
MaxTask == 2
MaxFail == 1
MaxRetryFail == 2
MaxClock == 1
MaxNodes == 2
MaxRootTry == 3
MaxMetaCall == 1

commit_size_ == 2
kMaxRpcSize == 2
max_commit_pending_num_ == 1
max_reader_pending_num_ == 1
tera_sdk_retry_times == 1
tera_sdk_delay_send_internal == 2
tera_sdk_update_meta_internal == 1
tera_sdk_update_meta_concurrency == 1

TaskIds == 1..MaxTask
Rows == {<<1>>, <<2>>}
ScanRows == {<<2>>}
MutationSize(row) == IF row = <<1>> THEN 1 ELSE kMaxRpcSize
OkCodes == {"kTabletNodeOk"}
RowErrors == {"kTxnFail", "kKeyNotExist", "kSnapshotNotExist", "kKeyNotInRange",
              "kTabletNodeIsBusy"}
RpcErrors == {"kConnectError", "kRPCTimeout"}
StatusCodes == OkCodes \cup RowErrors \cup RpcErrors

RECURSIVE Pow(_, _)
Pow(b, e) == IF e = 0 THEN 1 ELSE b * Pow(b, e - 1)

MapPut(m, k, v) == [x \in DOMAIN m \cup {k} |-> IF x = k THEN v ELSE m[x]]
MapDel(m, k) == [x \in DOMAIN m \ {k} |-> m[x]]
EmptyMap == [x \in {} |-> 0]
RECURSIVE SeqFilter(_, _)
SeqFilter(q, S) ==
    IF q = <<>> THEN <<>>
    ELSE IF Head(q) \in S THEN <<Head(q)>> \o SeqFilter(Tail(q), S)
    ELSE SeqFilter(Tail(q), S)
SeqSet(q) == {q[i] : i \in 1..Len(q)}

(* An SdkTask that was never submitted, and one as the user hands it in.   *)
NoTask ==
    [type |-> "NONE", row |-> <<>>, is_async |-> TRUE, size |-> 0,
     retry_times |-> 0, commit_times |-> 0, internal_err |-> "kTabletNodeOk",
     meta_timestamp |-> 0, error |-> "kOK",
     err_reason |-> [commit_times |-> 0, retry_times |-> 0, last_error |-> ""],
     callbacks |-> 0]
NewTask(type, row, is_async, size) ==
    [NoTask EXCEPT !.type = type, !.row = row, !.is_async = is_async, !.size = size]

(* A TabletMetaNode.  users and faulted are history: the ids in flight     *)
(* that were given the address of the node, and whether one of them came   *)
(* back with kKeyNotInRange.                                               *)
NewNode(key_start, key_end, server_addr, status, update_time) ==
    [key_start |-> key_start, key_end |-> key_end, server_addr |-> server_addr, status |-> status,
     update_time |-> update_time, users |-> {}, faulted |-> FALSE]

(* The members of TableImpl as one record, so that a handler is a function *)
(* from the state before it to the state after it.                         *)
St ==
    [task |-> task, next_task_id_ |-> next_task_id_, task_pool_ |-> task_pool_,
     blocked |-> blocked,
     cur_commit_pending_counter_ |-> cur_commit_pending_counter_,
     cur_reader_pending_counter_ |-> cur_reader_pending_counter_,
     tablet_meta_list_ |-> tablet_meta_list_,
     pending_task_id_list_ |-> pending_task_id_list_,
     meta_updating_count_ |-> meta_updating_count_,
     meta_scans |-> meta_scans,
     mutation_batch_map_ |-> mutation_batch_map_,
     reader_batch_map_ |-> reader_batch_map_,
     mutation_batch_seq_ |-> mutation_batch_seq_,
     reader_batch_seq_ |-> reader_batch_seq_,
     rpcs |-> rpcs, delay_tasks |-> delay_tasks, stale_sent |-> stale_sent,
     root_table_addr |-> root_table_addr, root_empty_count |-> root_empty_count]
SetSt(s) ==
    /\ task' = s.task
    /\ next_task_id_' = s.next_task_id_
    /\ task_pool_' = s.task_pool_
    /\ blocked' = s.blocked
    /\ cur_commit_pending_counter_' = s.cur_commit_pending_counter_
    /\ cur_reader_pending_counter_' = s.cur_reader_pending_counter_
    /\ tablet_meta_list_' = s.tablet_meta_list_
    /\ pending_task_id_list_' = s.pending_task_id_list_
    /\ meta_updating_count_' = s.meta_updating_count_
    /\ meta_scans' = s.meta_scans
    /\ mutation_batch_map_' = s.mutation_batch_map_
    /\ reader_batch_map_' = s.reader_batch_map_
    /\ mutation_batch_seq_' = s.mutation_batch_seq_
    /\ reader_batch_seq_' = s.reader_batch_seq_
    /\ rpcs' = s.rpcs
    /\ delay_tasks' = s.delay_tasks
    /\ stale_sent' = s.stale_sent
    /\ root_table_addr' = s.root_table_addr
    /\ root_empty_count' = s.root_empty_count

(* SdkTimeoutManager: GetTask finds a task that is still in the pool,      *)
(* PopTask also takes it out.                                              *)
GetTask(s, id) == id \in s.task_pool_
PopTask(s, id) == [s EXCEPT !.task_pool_ = @ \ {id}]
PutTask(s, id, t) ==
    [s EXCEPT !.task = [@ EXCEPT ![id] = t], !.task_pool_ = @ \cup {id}]

(***************************************************************************)
(* The meta cache.                                                         *)
(***************************************************************************)
(* cluster_->RootTableAddr: the address of the root tablet that the        *)
(* coordination service holds, read again when the cached one is empty.    *)
RootAddr == "ts0"
RootTableAddr(s) == s.root_table_addr

ScanMetaRetry(scan) ==
    [type |-> "ScanMetaTableAsyncInLock", key_start |-> scan.key_start,
     key_end |-> scan.key_end, expand_key_end |-> scan.expand_key_end]

(* The slip: every scan that is sent is counted, also one sent again.      *)
ScanMetaTableAsync_Counting(s, key_start, key_end, expand_key_end) ==
    LET scan == [key_start |-> key_start, key_end |-> key_end,
                 expand_key_end |-> expand_key_end]
    IN  IF RootTableAddr(s) = ""
        THEN [s EXCEPT !.delay_tasks = @ \cup {ScanMetaRetry(scan)},
                       !.root_empty_count = @ + 1]
        ELSE [s EXCEPT !.meta_scans = @ \cup {scan}, !.root_empty_count = 0,
                       !.meta_updating_count_ = @ + 1]

ScanMetaTableAsync(s, key_start, key_end, expand_key_end) ==
    LET scan == [key_start |-> key_start, key_end |-> key_end,
                 expand_key_end |-> expand_key_end]
    IN  IF RootTableAddr(s) = ""
        THEN [s EXCEPT !.delay_tasks = @ \cup {ScanMetaRetry(scan)},
                       !.root_empty_count = @ + 1]
        ELSE [s EXCEPT !.meta_scans = @ \cup {scan}, !.root_empty_count = 0]

NoUpdate == [need_update |-> FALSE, update_start_key |-> <<>>, update_end_key |-> <<>>,
             update_expand_end_key |-> <<>>, list |-> <<>>]
(* The slip: the scan covers the first WAIT_UPDATE node only.              *)
RECURSIVE UpdateMetaLoop_First(_, _)
UpdateMetaLoop_First(keys, acc) ==
    IF keys = <<>> THEN acc
    ELSE LET k == Head(keys)
             node == acc.list[k]
         IN  IF node.status # "WAIT_UPDATE" /\ acc.need_update
             THEN [acc EXCEPT !.update_expand_end_key = k]
             ELSE IF node.status # "WAIT_UPDATE"
             THEN UpdateMetaLoop_First(Tail(keys), acc)
             ELSE IF ~acc.need_update
             THEN UpdateMetaLoop_First(Tail(keys),
                      [acc EXCEPT !.need_update = TRUE,
                                  !.update_start_key = k,
                                  !.update_end_key = node.key_end,
                                  !.list = [@ EXCEPT ![k].status = "UPDATING"]])
             ELSE [acc EXCEPT !.update_expand_end_key = k]

RECURSIVE UpdateMetaLoop(_, _)
UpdateMetaLoop(keys, acc) ==
    IF keys = <<>> THEN acc
    ELSE LET k == Head(keys)
             node == acc.list[k]
         IN  IF node.status # "WAIT_UPDATE" /\ acc.need_update
             THEN [acc EXCEPT !.update_expand_end_key = k]
             ELSE IF node.status # "WAIT_UPDATE"
             THEN UpdateMetaLoop(Tail(keys), acc)
             ELSE IF ~acc.need_update
             THEN UpdateMetaLoop(Tail(keys),
                      [acc EXCEPT !.need_update = TRUE,
                                  !.update_start_key = k,
                                  !.update_end_key = node.key_end,
                                  !.list = [@ EXCEPT ![k].status = "UPDATING"]])
             ELSE IF k = acc.update_end_key
             THEN UpdateMetaLoop(Tail(keys),
                      [acc EXCEPT !.update_end_key = node.key_end,
                                  !.list = [@ EXCEPT ![k].status = "UPDATING"]])
             ELSE [acc EXCEPT !.update_expand_end_key = k]

UpdateMetaAsync(s) ==
    IF s.meta_updating_count_ >= tera_sdk_update_meta_concurrency THEN s
    ELSE LET acc == UpdateMetaLoop(SortKeys(DOMAIN s.tablet_meta_list_),
                                   [NoUpdate EXCEPT !.list = s.tablet_meta_list_])
         IN  IF ~acc.need_update THEN s
             ELSE ScanMetaTableAsync(
                      [s EXCEPT !.tablet_meta_list_ = acc.list,
                                !.meta_updating_count_ = @ + 1],
                      acc.update_start_key, acc.update_end_key,
                      acc.update_expand_end_key)

PendingPush(s, row, id) ==
    [s EXCEPT !.pending_task_id_list_ =
        MapPut(@, row, IF row \in DOMAIN @ THEN Append(@[row], id) ELSE <<id>>)]

(* tablet_meta_list_[row] of a row that no node covers: a new node, or the *)
(* node that starts at the row.                                            *)
PlaceHolder(list, row) ==
    MapPut(list, row,
           IF row \in DOMAIN list
           THEN [list[row] EXCEPT !.key_start = row, !.key_end = Append(row, 0),
                                  !.status = "WAIT_UPDATE"]
           ELSE NewNode(row, Append(row, 0), "", "WAIT_UPDATE", 0))

(* The node found NORMAL but too fresh to be fetched again at once.        *)
MarkStale(s, start) ==
    LET node == s.tablet_meta_list_[start]
        update_interval == node.update_time + tera_sdk_update_meta_internal - clock
    IN  IF update_interval <= 0
        THEN UpdateMetaAsync([s EXCEPT !.tablet_meta_list_[start].status = "WAIT_UPDATE"])
        ELSE [s EXCEPT !.tablet_meta_list_[start].status = "DELAY_UPDATE",
                       !.delay_tasks = @ \cup
                           {[type |-> "DelayUpdateMeta", start_key |-> start,
                             end_key |-> node.key_end, delay |-> update_interval,
                             due |-> clock + update_interval]}]

NoAddr(s) == [s |-> s, ok |-> FALSE, addr |-> ""]
GetTabletAddrOrScheduleUpdateMeta(s, row, id) ==
    LET node == GetTabletMetaNodeForKey(s.tablet_meta_list_, row)
        t == s.task[id]
    IN  IF ~node.found
        THEN NoAddr(UpdateMetaAsync(
                 [PendingPush(s, row, id) EXCEPT
                     !.tablet_meta_list_ = PlaceHolder(@, row)]))
        ELSE IF s.tablet_meta_list_[node.start].status # "NORMAL"
        THEN NoAddr(PendingPush(s, row, id))
        ELSE IF /\ t.internal_err \in {"kKeyNotInRange", "kConnectError"}
                /\ t.meta_timestamp >= s.tablet_meta_list_[node.start].update_time
        THEN NoAddr(MarkStale(PendingPush(s, row, id), node.start))
        ELSE [s |-> [s EXCEPT
                       !.task[id].meta_timestamp =
                           s.tablet_meta_list_[node.start].update_time,
                       !.tablet_meta_list_[node.start].users = @ \cup {id},
                       !.stale_sent = IF s.tablet_meta_list_[node.start].faulted
                                      THEN @ \cup {id} ELSE @],
              ok |-> TRUE,
              addr |-> s.tablet_meta_list_[node.start].server_addr]

RECURSIVE DelayUpdateLoop(_, _, _)
DelayUpdateLoop(list, keys, end_key) ==
    IF keys = <<>> THEN list
    ELSE LET k == Head(keys)
         IN  IF KeyLess(end_key, list[k].key_end) THEN list
             ELSE DelayUpdateLoop(
                      IF list[k].status = "DELAY_UPDATE"
                      THEN [list EXCEPT ![k].status = "WAIT_UPDATE"] ELSE list,
                      Tail(keys), end_key)

DelayUpdateMeta(s, start_key, end_key) ==
    UpdateMetaAsync(
        [s EXCEPT !.tablet_meta_list_ =
            DelayUpdateLoop(@, SortKeys({k \in DOMAIN @ : KeyLeq(start_key, k)}),
                            end_key)])

(* The slip: the node is fetched again whatever the age of the task.       *)
ScheduleUpdateMeta_Always(s, row, meta_timestamp) ==
    LET node == GetTabletMetaNodeForKey(s.tablet_meta_list_, row)
    IN  IF ~node.found
        THEN UpdateMetaAsync([s EXCEPT !.tablet_meta_list_ = PlaceHolder(@, row)])
        ELSE IF s.tablet_meta_list_[node.start].status = "NORMAL"
        THEN MarkStale(s, node.start)
        ELSE s

ScheduleUpdateMeta(s, row, meta_timestamp) ==
    LET node == GetTabletMetaNodeForKey(s.tablet_meta_list_, row)
    IN  IF ~node.found
        THEN UpdateMetaAsync([s EXCEPT !.tablet_meta_list_ = PlaceHolder(@, row)])
        ELSE IF /\ s.tablet_meta_list_[node.start].status = "NORMAL"
                /\ meta_timestamp >= s.tablet_meta_list_[node.start].update_time
        THEN MarkStale(s, node.start)
        ELSE s

(***************************************************************************)
(* Batches and commits.                                                    *)
(***************************************************************************)
RECURSIVE AddCommitTimes(_, _)
AddCommitTimes(tk, ids) ==
    IF ids = <<>> THEN tk
    ELSE AddCommitTimes([tk EXCEPT ![Head(ids)].commit_times = @ + 1], Tail(ids))

Rpc(kind, server_addr, ids) == [kind |-> kind, server_addr |-> server_addr, ids |-> ids]

CommitMutations(s, server_addr, mu_list) ==
    [s EXCEPT !.task = AddCommitTimes(@, mu_list),
              !.rpcs = @ \cup {Rpc("write", server_addr, mu_list)}]
CommitMutationsById(s, server_addr, mu_id_list) ==
    CommitMutations(s, server_addr, SeqFilter(mu_id_list, s.task_pool_))

CommitReaders(s, server_addr, reader_list) ==
    [s EXCEPT !.task = AddCommitTimes(@, reader_list),
              !.rpcs = @ \cup {Rpc("read", server_addr, reader_list)}]
CommitReadersById(s, server_addr, reader_id_list) ==
    CommitReaders(s, server_addr, SeqFilter(reader_id_list, s.task_pool_))

BatchTimer(type, server_addr, batch_seq) ==
    [type |-> type, server_addr |-> server_addr, batch_seq |-> batch_seq]
NewBatch(seq) == [sequence_num |-> seq, row_id_list |-> <<>>, byte_size |-> 0]

(* The batch of the server, created with its timer when there is none.     *)
FindMutationBatch(s, server_addr) ==
    IF server_addr \in DOMAIN s.mutation_batch_map_ THEN s
    ELSE [s EXCEPT
            !.mutation_batch_map_ = MapPut(@, server_addr, NewBatch(s.mutation_batch_seq_)),
            !.mutation_batch_seq_ = @ + 1,
            !.delay_tasks = @ \cup {BatchTimer("MutationBatchTimeout", server_addr,
                                               s.mutation_batch_seq_)}]

MutationBatchFull(batch, last, flush) ==
    \/ batch.byte_size >= kMaxRpcSize
    \/ last /\ (flush \/ Len(batch.row_id_list) >= commit_size_)

RECURSIVE PackMutationsLoop(_, _, _, _)
PackMutationsLoop(s, server_addr, mu_list, flush) ==
    IF mu_list = <<>> THEN s
    ELSE LET s1 == FindMutationBatch(s, server_addr)
             id == Head(mu_list)
             batch == [s1.mutation_batch_map_[server_addr] EXCEPT
                          !.row_id_list = Append(@, id),
                          !.byte_size = @ + s.task[id].size]
             s2 == IF MutationBatchFull(batch, Len(mu_list) = 1, flush)
                   THEN CommitMutationsById(
                            [s1 EXCEPT
                                !.delay_tasks = @ \ {BatchTimer("MutationBatchTimeout",
                                                         server_addr, batch.sequence_num)},
                                !.mutation_batch_map_ = MapDel(@, server_addr)],
                            server_addr, batch.row_id_list)
                   ELSE [s1 EXCEPT !.mutation_batch_map_[server_addr] = batch]
         IN  PackMutationsLoop(s2, server_addr, Tail(mu_list), flush)

PackMutations(s, server_addr, mu_list, flush) ==
    PackMutationsLoop(s, server_addr, mu_list, flush)

(* The slip: the timer commits whatever batch the server has.              *)
MutationBatchTimeout_AnySeq(s, server_addr, batch_seq) ==
    IF server_addr \notin DOMAIN s.mutation_batch_map_ THEN s
    ELSE CommitMutationsById(
             [s EXCEPT !.mutation_batch_map_ = MapDel(@, server_addr)],
             server_addr, s.mutation_batch_map_[server_addr].row_id_list)

MutationBatchTimeout(s, server_addr, batch_seq) ==
    IF server_addr \notin DOMAIN s.mutation_batch_map_ THEN s
    ELSE IF s.mutation_batch_map_[server_addr].sequence_num # batch_seq THEN s
    ELSE CommitMutationsById(
             [s EXCEPT !.mutation_batch_map_ = MapDel(@, server_addr)],
             server_addr, s.mutation_batch_map_[server_addr].row_id_list)

FindReaderBatch(s, server_addr) ==
    IF server_addr \in DOMAIN s.reader_batch_map_ THEN s
    ELSE [s EXCEPT
            !.reader_batch_map_ = MapPut(@, server_addr, NewBatch(s.reader_batch_seq_)),
            !.reader_batch_seq_ = @ + 1,
            !.delay_tasks = @ \cup {BatchTimer("ReaderBatchTimeout", server_addr,
                                               s.reader_batch_seq_)}]

PackReaders(s, server_addr, reader_list) ==
    LET s1 == FindReaderBatch(s, server_addr)
        batch == [s1.reader_batch_map_[server_addr] EXCEPT
                     !.row_id_list = @ \o reader_list]
    IN  IF Len(batch.row_id_list) >= commit_size_
        THEN CommitReadersById(
                 [s1 EXCEPT
                     !.delay_tasks = @ \ {BatchTimer("ReaderBatchTimeout",
                                              server_addr, batch.sequence_num)},
                     !.reader_batch_map_ = MapDel(@, server_addr)],
                 server_addr, batch.row_id_list)
        ELSE [s1 EXCEPT !.reader_batch_map_[server_addr] = batch]

ReaderBatchTimeout(s, server_addr, batch_seq) ==
    IF server_addr \notin DOMAIN s.reader_batch_map_ THEN s
    ELSE IF s.reader_batch_map_[server_addr].sequence_num # batch_seq THEN s
    ELSE CommitReadersById(
             [s EXCEPT !.reader_batch_map_ = MapDel(@, server_addr)],
             server_addr, s.reader_batch_map_[server_addr].row_id_list)

CommitScan(s, id, server_addr) ==
    [s EXCEPT !.rpcs = @ \cup {Rpc("scan", server_addr, <<id>>)}]

(***************************************************************************)
(* Distribution of mutations and readers to the servers.                   *)
(***************************************************************************)
AddrOrder == <<"ts1", "ts2">>
NoGroups == [a \in Servers |-> [list |-> <<>>, flush |-> FALSE]]
BreakTask(id) == [type |-> "BreakRequest", id |-> id]

(* Lines 548-565, for one row: the counter, then the verdict.              *)
MutationFlowControl(s, id, called_by_user) ==
    IF ~called_by_user THEN [s |-> s, verdict |-> "pass"]
    ELSE LET s1 == [s EXCEPT !.cur_commit_pending_counter_ = @ + 1]
         IN  IF ~(s1.cur_commit_pending_counter_ > max_commit_pending_num_
                  /\ s.task[id].is_async)
             THEN [s |-> s1, verdict |-> "pass"]
             ELSE IF async_blocking
             THEN [s |-> [s1 EXCEPT !.blocked = @ \cup {id}], verdict |-> "block"]
             ELSE [s |-> [s1 EXCEPT !.cur_commit_pending_counter_ = @ - 1,
                                    !.task[id].error = "kBusy",
                                    !.delay_tasks = @ \cup {BreakTask(id)}],
                   verdict |-> "busy"]

ReaderFlowControl(s, id, called_by_user) ==
    IF ~called_by_user THEN [s |-> s, verdict |-> "pass"]
    ELSE LET s1 == [s EXCEPT !.cur_reader_pending_counter_ = @ + 1]
         IN  IF ~(s1.cur_reader_pending_counter_ > max_reader_pending_num_
                  /\ s.task[id].is_async)
             THEN [s |-> s1, verdict |-> "pass"]
             ELSE IF async_blocking
             THEN [s |-> [s1 EXCEPT !.blocked = @ \cup {id}], verdict |-> "block"]
             ELSE [s |-> [s1 EXCEPT !.cur_reader_pending_counter_ = @ - 1,
                                    !.task[id].error = "kBusy",
                                    !.delay_tasks = @ \cup {BreakTask(id)}],
                   verdict |-> "busy"]

(* Lines 567-579 for one row: the address, or the row waits for the meta.  *)
GroupByAddr(s, id, groups) ==
    LET r == GetTabletAddrOrScheduleUpdateMeta(s, s.task[id].row, id)
    IN  IF ~r.ok THEN [s |-> r.s, groups |-> groups]
        ELSE [s |-> r.s,
              groups |-> [groups EXCEPT
                  ![r.addr] = [list |-> Append(@.list, id),
                               flush |-> @.flush \/ ~s.task[id].is_async]]]

RECURSIVE PackMutationGroups(_, _, _)
PackMutationGroups(s, groups, addrs) ==
    IF addrs = <<>> THEN s
    ELSE LET g == groups[Head(addrs)]
         IN  PackMutationGroups(
                 IF g.list = <<>> THEN s
                 ELSE PackMutations(s, Head(addrs), g.list, g.flush),
                 groups, Tail(addrs))

RECURSIVE PackReaderGroups(_, _, _)
PackReaderGroups(s, groups, addrs) ==
    IF addrs = <<>> THEN s
    ELSE LET g == groups[Head(addrs)]
         IN  PackReaderGroups(
                 IF g.list = <<>> THEN s ELSE PackReaders(s, Head(addrs), g.list),
                 groups, Tail(addrs))

(* The loop of lines 532-580.  A caller that has to sleep in the flow      *)
(* control loop stops there; a user call carries one row (ApplyMutation).  *)
RECURSIVE DistributeMutationsLoop(_, _, _, _)
DistributeMutationsLoop(s, mu_list, called_by_user, groups) ==
    IF mu_list = <<>> THEN PackMutationGroups(s, groups, AddrOrder)
    ELSE LET id == Head(mu_list)
             s1 == IF called_by_user
                   THEN PutTask([s EXCEPT !.next_task_id_ = @ + 1], id, s.task[id])
                   ELSE s
             fc == MutationFlowControl(s1, id, called_by_user)
         IN  IF fc.verdict = "block" THEN fc.s
             ELSE IF fc.verdict = "busy"
             THEN DistributeMutationsLoop(fc.s, Tail(mu_list), called_by_user, groups)
             ELSE LET g == GroupByAddr(fc.s, id, groups)
                  IN  DistributeMutationsLoop(g.s, Tail(mu_list), called_by_user,
                                              g.groups)

DistributeMutations(s, mu_list, called_by_user) ==
    DistributeMutationsLoop(s, mu_list, called_by_user, NoGroups)

DistributeMutationsById(s, mu_id_list) ==
    DistributeMutations(s, SeqFilter(mu_id_list, s.task_pool_), FALSE)

RECURSIVE DistributeReadersLoop(_, _, _, _)
DistributeReadersLoop(s, reader_list, called_by_user, groups) ==
    IF reader_list = <<>> THEN PackReaderGroups(s, groups, AddrOrder)
    ELSE LET id == Head(reader_list)
             s1 == IF called_by_user
                   THEN PutTask([s EXCEPT !.next_task_id_ = @ + 1], id, s.task[id])
                   ELSE s
             fc == ReaderFlowControl(s1, id, called_by_user)
         IN  IF fc.verdict = "block" THEN fc.s
             ELSE IF fc.verdict = "busy"
             THEN DistributeReadersLoop(fc.s, Tail(reader_list), called_by_user, groups)
             ELSE LET g == GroupByAddr(fc.s, id, groups)
                  IN  DistributeReadersLoop(g.s, Tail(reader_list), called_by_user,
                                            g.groups)

DistributeReaders(s, row_reader_list, called_by_user) ==
    DistributeReadersLoop(s, row_reader_list, called_by_user, NoGroups)

DistributeReadersById(s, reader_id_list) ==
    DistributeReaders(s, SeqFilter(reader_id_list, s.task_pool_), FALSE)

ScanTabletAsync(s, id, called_by_user) ==
    LET s1 == IF called_by_user
              THEN PutTask([s EXCEPT !.next_task_id_ = @ + 1], id, s.task[id])
              ELSE s
        r == GetTabletAddrOrScheduleUpdateMeta(s1, s1.task[id].row, id)
    IN  IF r.ok THEN CommitScan(r.s, id, r.addr) ELSE r.s

(***************************************************************************)
(* The RPC callbacks, the timeouts and BreakRequest.                       *)
(***************************************************************************)
(* The user callback runs and the task object is released: only the       *)
(* outcome handed to the user stays.                                       *)
RunCallback(s, id) ==
    [s EXCEPT !.task[id] = [NoTask EXCEPT !.type = s.task[id].type,
                                          !.row = s.task[id].row,
                                          !.error = s.task[id].error,
                                          !.err_reason = s.task[id].err_reason,
                                          !.callbacks = s.task[id].callbacks + 1]]

(* The slip: the status of the first row stands for every row.            *)
RowError_First(resp, i) ==
    IF resp.status = "kTabletNodeOk" THEN resp.row_status[1] ELSE resp.status

RowError(resp, i) ==
    IF resp.status = "kTabletNodeOk" THEN resp.row_status[i] ELSE resp.status

(* History: the answer for id is in; a kKeyNotInRange faults the node that *)
(* gave the address.                                                       *)
NoteAnswer(list, id, err) ==
    [k \in DOMAIN list |->
        IF id \in list[k].users
        THEN [list[k] EXCEPT !.users = @ \ {id},
                             !.faulted = @ \/ err = "kKeyNotInRange"]
        ELSE list[k]]

RetryInterval(retry_times) == Pow(tera_sdk_delay_send_internal, retry_times) * 1000
RetryTask(type, ids, retry_times) ==
    [type |-> type, ids |-> ids, retry_times |-> retry_times,
     delay |-> RetryInterval(retry_times)]
RetryTasks(type, retry_times_list) ==
    {RetryTask(type, retry_times_list[r], r) : r \in DOMAIN retry_times_list}

NoRetry == [s |-> 0, retry_times_list |-> EmptyMap, not_in_range_list |-> <<>>]

(* A row that failed and is still in the pool: lines 818-837.              *)
(* The slip: a row out of range is delayed like any other failed row.      *)
SortFailedRow_Delayed(acc, id, err) ==
    LET s1 == [acc.s EXCEPT !.task[id].internal_err = err,
                            !.task[id].retry_times = @ + 1]
        r == s1.task[id].retry_times
    IN  [acc EXCEPT !.s = s1,
                    !.retry_times_list =
                        MapPut(@, r, IF r \in DOMAIN @ THEN Append(@[r], id)
                                     ELSE <<id>>)]

SortFailedRow(acc, id, err) ==
    LET s1 == [acc.s EXCEPT !.task[id].internal_err = err,
                            !.task[id].retry_times = @ + 1]
        r == s1.task[id].retry_times
    IN  IF err = "kKeyNotInRange"
        THEN [acc EXCEPT !.s = s1, !.not_in_range_list = Append(@, id)]
        ELSE [acc EXCEPT !.s = s1,
                         !.retry_times_list =
                             MapPut(@, r, IF r \in DOMAIN @ THEN Append(@[r], id)
                                          ELSE <<id>>)]

(* The results that end a row: lines 781 and 1123-1125.                    *)
MutationDone(err) == err \in {"kTabletNodeOk", "kTxnFail"}

(* The slip: only kTabletNodeOk ends a read.                               *)
ReaderDone_OkOnly(err) == err = "kTabletNodeOk"

ReaderDone(err) == err \in {"kTabletNodeOk", "kKeyNotExist", "kSnapshotNotExist"}

(* The slip: a finished row is read from the pool but left in it.          *)
FinishMutation_Get(s, id, err) ==
    IF ~GetTask(s, id) THEN s
    ELSE RunCallback([s EXCEPT
             !.task[id].error = IF err = "kTabletNodeOk" THEN "kOK" ELSE "kTxnFail",
             !.cur_commit_pending_counter_ = @ - 1], id)

(* A row that is done: lines 781-804.                                      *)
FinishMutation(s, id, err) ==
    IF ~GetTask(s, id) THEN s
    ELSE RunCallback([PopTask(s, id) EXCEPT
             !.task[id].error = IF err = "kTabletNodeOk" THEN "kOK" ELSE "kTxnFail",
             !.cur_commit_pending_counter_ = @ - 1], id)

RECURSIVE MutateRows(_, _, _, _)
MutateRows(acc, ids, resp, i) ==
    IF i > Len(ids) THEN acc
    ELSE LET id == ids[i]
             err == RowError(resp, i)
             a1 == [acc EXCEPT !.s.tablet_meta_list_ = NoteAnswer(@, id, err)]
         IN  MutateRows(
                 IF MutationDone(err)
                 THEN [a1 EXCEPT !.s = FinishMutation(@, id, err)]
                 ELSE IF ~GetTask(a1.s, id) THEN a1
                 ELSE SortFailedRow(a1, id, err),
                 ids, resp, i + 1)

MutateCallBack(s, mu_id_list, resp) ==
    LET acc == MutateRows([NoRetry EXCEPT !.s = s], mu_id_list, resp, 1)
        s1 == IF acc.not_in_range_list # <<>>
              THEN DistributeMutations(acc.s, acc.not_in_range_list, FALSE)
              ELSE acc.s
    IN  [s1 EXCEPT !.delay_tasks =
            @ \cup RetryTasks("DistributeMutationsById", acc.retry_times_list)]

FinishReader(s, id, err) ==
    IF ~GetTask(s, id) THEN s
    ELSE RunCallback([PopTask(s, id) EXCEPT
             !.task[id].error = IF err = "kTabletNodeOk" THEN "kOK" ELSE "kNotFound",
             !.cur_reader_pending_counter_ = @ - 1], id)

RECURSIVE ReaderRows(_, _, _, _)
ReaderRows(acc, ids, resp, i) ==
    IF i > Len(ids) THEN acc
    ELSE LET id == ids[i]
             err == RowError(resp, i)
             a1 == [acc EXCEPT !.s.tablet_meta_list_ = NoteAnswer(@, id, err)]
         IN  ReaderRows(
                 IF ReaderDone(err)
                 THEN [a1 EXCEPT !.s = FinishReader(@, id, err)]
                 ELSE IF ~GetTask(a1.s, id) THEN a1
                 ELSE SortFailedRow(a1, id, err),
                 ids, resp, i + 1)

ReaderCallBack(s, reader_id_list, resp) ==
    LET acc == ReaderRows([NoRetry EXCEPT !.s = s], reader_id_list, resp, 1)
        s1 == IF acc.not_in_range_list # <<>>
              THEN DistributeReaders(acc.s, acc.not_in_range_list, FALSE)
              ELSE acc.s
    IN  [s1 EXCEPT !.delay_tasks =
            @ \cup RetryTasks("DistributeReadersById", acc.retry_times_list)]

ScanCallBack(s, id, err) ==
    LET s1 == [s EXCEPT !.task[id].internal_err = err,
                        !.tablet_meta_list_ = NoteAnswer(@, id, err)]
        t == s1.task[id]
    IN  IF \/ err \in {"kTabletNodeOk", "kSnapshotNotExist"}
           \/ t.retry_times >= tera_sdk_retry_times
        THEN LET s2 == IF err \in {"kKeyNotInRange", "kConnectError"}
                       THEN ScheduleUpdateMeta(s1, t.row, t.meta_timestamp)
                       ELSE s1
             IN  RunCallback(PopTask(s2, id), id)
        ELSE [s1 EXCEPT
                 !.task[id].retry_times = @ + 1,
                 !.delay_tasks = @ \cup
                     {[type |-> "ScanTabletAsync", id |-> id,
                       delay |-> RetryInterval(t.retry_times)]}]

NoReason == [commit_times |-> 0, retry_times |-> 0, last_error |-> ""]
ErrReason(t) ==
    IF t.retry_times = 0
    THEN [commit_times |-> t.commit_times, retry_times |-> 0, last_error |-> ""]
    ELSE [commit_times |-> t.commit_times, retry_times |-> t.retry_times,
          last_error |-> t.internal_err]

(* The slip: every expired task is reported as kTimeout.                   *)
TimeoutError_Always(t) == "kTimeout"

TimeoutError(t) == IF t.retry_times = 0 THEN "kTimeout" ELSE "kSystem"

(* task_pool_ has popped the expired task and calls its timeout function.  *)
MutationTimeout(s, id) ==
    LET t == s.task[id]
        s1 == IF t.internal_err \in {"kKeyNotInRange", "kConnectError"}
              THEN ScheduleUpdateMeta(s, t.row, t.meta_timestamp)
              ELSE s
    IN  RunCallback([s1 EXCEPT !.task[id].error = TimeoutError(t),
                               !.task[id].err_reason = ErrReason(t),
                               !.cur_commit_pending_counter_ = @ - 1], id)

ReaderTimeout(s, id) ==
    LET t == s.task[id]
        s1 == IF t.internal_err \in {"kKeyNotInRange", "kConnectError"}
              THEN ScheduleUpdateMeta(s, t.row, t.meta_timestamp)
              ELSE s
    IN  RunCallback([s1 EXCEPT !.task[id].error = TimeoutError(t),
                               !.task[id].err_reason = ErrReason(t),
                               !.cur_reader_pending_counter_ = @ - 1], id)

BreakRequest(s, id) ==
    IF ~GetTask(s, id) THEN s
    ELSE RunCallback(PopTask(s, id), id)

(***************************************************************************)
(* The answer of a scan of the meta table.                                 *)
(***************************************************************************)
RECURSIVE WakeUpIds(_, _, _)
WakeUpIds(acc, ids, node) ==
    IF ids = <<>> THEN acc
    ELSE LET id == Head(ids)
         IN  IF ~GetTask(acc.s, id) THEN WakeUpIds(acc, Tail(ids), node)
             ELSE LET s1 == [acc.s EXCEPT
                                !.task[id].meta_timestamp = node.update_time,
                                !.tablet_meta_list_[node.key_start].users = @ \cup {id}]
                      type == s1.task[id].type
                  IN  WakeUpIds(
                          IF type = "READ"
                          THEN [acc EXCEPT !.s = s1, !.reader_list = Append(@, id)]
                          ELSE IF type = "MUTATION"
                          THEN [acc EXCEPT !.s = s1, !.mutation_list = Append(@, id)]
                          ELSE [acc EXCEPT !.s = CommitScan(s1, id, node.server_addr)],
                          Tail(ids), node)

(* The slip: the entry of a woken row stays in pending_task_id_list_.      *)
RECURSIVE WakeUpRows_Keep(_, _, _)
WakeUpRows_Keep(acc, rows, node) ==
    IF rows = <<>> THEN acc
    ELSE LET row == Head(rows)
         IN  IF node.key_end # <<>> /\ KeyLeq(node.key_end, row) THEN acc
             ELSE WakeUpRows_Keep(WakeUpIds(acc, acc.s.pending_task_id_list_[row], node),
                                  Tail(rows), node)

RECURSIVE WakeUpRows(_, _, _)
WakeUpRows(acc, rows, node) ==
    IF rows = <<>> THEN acc
    ELSE LET row == Head(rows)
         IN  IF node.key_end # <<>> /\ KeyLeq(node.key_end, row) THEN acc
             ELSE LET a1 == WakeUpIds(acc, acc.s.pending_task_id_list_[row], node)
                  IN  WakeUpRows([a1 EXCEPT !.s.pending_task_id_list_ = MapDel(@, row)],
                                 Tail(rows), node)

(* node: the key range, address and update time of the new node.           *)
WakeUpPendingRequest(s, node) ==
    LET acc == WakeUpRows([s |-> s, mutation_list |-> <<>>, reader_list |-> <<>>],
                          SortKeys({r \in DOMAIN s.pending_task_id_list_ :
                                       KeyLeq(node.key_start, r)}),
                          node)
        s1 == IF acc.mutation_list # <<>>
              THEN PackMutations(acc.s, node.server_addr, acc.mutation_list, FALSE)
              ELSE acc.s
    IN  IF acc.reader_list # <<>>
        THEN PackReaders(s1, node.server_addr, acc.reader_list)
        ELSE s1

(* The slip: an old node that reaches into the new range from the left is *)
(* left as it is.                                                          *)
OverlapOld_NoShrink(list, k, new_start, new_end) ==
    LET old == [list[k] EXCEPT !.users = {}, !.faulted = FALSE]
        old_end == old.key_end
    IN  IF KeyLess(k, new_start)
        THEN list
        ELSE IF new_end = <<>> \/ (old_end # <<>> /\ KeyLeq(old_end, new_end))
             THEN MapDel(list, k)
             ELSE MapDel(MapPut(list, new_end, [old EXCEPT !.key_start = new_end]), k)

(* The slip: an old node that reaches beyond the new range on the right   *)
(* is cut without the copy of what is left of it.                          *)
OverlapOld_NoCopy(list, k, new_start, new_end) ==
    LET old == [list[k] EXCEPT !.users = {}, !.faulted = FALSE]
        old_end == old.key_end
    IN  IF KeyLess(k, new_start)
        THEN IF old_end # <<>> /\ KeyLeq(old_end, new_start)
             THEN list
             ELSE [list EXCEPT ![k] = [old EXCEPT !.key_end = new_start]]
        ELSE MapDel(list, k)

(* One round of the loop of lines 1577-1640 on the old node at key k.      *)
OverlapOld(list, k, new_start, new_end) ==
    LET old == [list[k] EXCEPT !.users = {}, !.faulted = FALSE]
        old_end == old.key_end
        copy_node == [old EXCEPT !.key_start = new_end]
    IN  IF KeyLess(k, new_start)
        THEN IF old_end # <<>> /\ KeyLeq(old_end, new_start)
             THEN list
             ELSE IF new_end = <<>> \/ (old_end # <<>> /\ KeyLeq(old_end, new_end))
             THEN [list EXCEPT ![k] = [old EXCEPT !.key_end = new_start]]
             ELSE [MapPut(list, new_end, copy_node) EXCEPT
                      ![k] = [old EXCEPT !.key_end = new_start]]
        ELSE IF new_end = <<>> \/ (old_end # <<>> /\ KeyLeq(old_end, new_end))
             THEN MapDel(list, k)
             ELSE MapDel(MapPut(list, new_end, copy_node), k)

RECURSIVE OverlapLoop(_, _, _, _)
OverlapLoop(list, keys, new_start, new_end) ==
    IF keys = <<>> THEN list
    ELSE LET k == Head(keys)
         IN  IF ~KeyLess(k, new_start) /\ new_end # <<>> /\ ~KeyLess(k, new_end)
             THEN list
             ELSE OverlapLoop(OverlapOld(list, k, new_start, new_end), Tail(keys),
                              new_start, new_end)

(* The first node the loop looks at: the one before upper_bound(new_start), *)
(* or the first node.                                                       *)
FirstOld(list, new_start) ==
    LET it == UpperBound(list, new_start)
    IN  IF DOMAIN list # {} /\ it # BeginIt(list) THEN PrevIt(list, it) ELSE it

UpdateTabletMetaList(s, new_meta) ==
    LET list == s.tablet_meta_list_
        first == FirstOld(list, new_meta.key_start)
        keys == IF first.at_end THEN <<>>
                ELSE SortKeys({k \in DOMAIN list : KeyLeq(first.key, k)})
        list1 == OverlapLoop(list, keys, new_meta.key_start, new_meta.key_end)
        new_node == NewNode(new_meta.key_start, new_meta.key_end, new_meta.server_addr,
                            "NORMAL", clock)
    IN  WakeUpPendingRequest(
            [s EXCEPT !.tablet_meta_list_ = MapPut(list1, new_meta.key_start, new_node)],
            [key_start |-> new_meta.key_start, key_end |-> new_meta.key_end,
             server_addr |-> new_meta.server_addr, update_time |-> clock])

RECURSIVE UpdateTabletMetas(_, _)
UpdateTabletMetas(s, metas) ==
    IF metas = <<>> THEN s
    ELSE UpdateTabletMetas(UpdateTabletMetaList(s, Head(metas)), Tail(metas))

(* The loop of lines 1548-1559 on one list.  Erasing an id and then        *)
(* stepping skips the next id; erasing the last id steps past end(), which *)
(* is undefined: ub records it, and the loop goes on from the first id as  *)
(* the circular std::list does.                                            *)
RemoveAt(q, i) == SubSeq(q, 1, i - 1) \o SubSeq(q, i + 1, Len(q))
RECURSIVE GiveupList(_, _, _, _)
GiveupList(q, i, pool, ub) ==
    IF i > Len(q) THEN [q |-> q, ub |-> ub]
    ELSE IF q[i] \in pool THEN GiveupList(q, i + 1, pool, ub)
    ELSE LET q1 == RemoveAt(q, i)
         IN  IF i <= Len(q1) THEN GiveupList(q1, i + 1, pool, ub)
             ELSE IF q1 = <<>> THEN [q |-> q1, ub |-> TRUE]
             ELSE GiveupList(q1, 1, pool, TRUE)

RECURSIVE GiveupRows(_, _, _)
GiveupRows(acc, rows, key_end) ==
    IF rows = <<>> THEN acc
    ELSE LET row == Head(rows)
         IN  IF key_end # <<>> /\ KeyLeq(key_end, row) THEN acc
             ELSE LET r == GiveupList(acc.s.pending_task_id_list_[row], 1,
                                      acc.s.task_pool_, acc.ub)
                  IN  GiveupRows(
                          [s |-> [acc.s EXCEPT !.pending_task_id_list_ =
                                     IF r.q = <<>> THEN MapDel(@, row)
                                     ELSE MapPut(@, row, r.q)],
                           ub |-> r.ub],
                          Tail(rows), key_end)

GiveupUpdateTabletMeta(s, key_start, key_end) ==
    GiveupRows([s |-> s, ub |-> FALSE],
               SortKeys({r \in DOMAIN s.pending_task_id_list_ : KeyLeq(key_start, r)}),
               key_end)

(* resp: status, the metas of the key values, complete.                    *)
ScanMetaTableCallBack(s, scan, resp) ==
    IF resp.status # "kTabletNodeOk"
    THEN LET g == GiveupUpdateTabletMeta(s, scan.key_start, scan.key_end)
         IN  [s |-> [g.s EXCEPT !.delay_tasks = @ \cup {ScanMetaRetry(scan)}],
              ub |-> g.ub]
    ELSE LET n == Len(resp.metas)
             return_start == IF n = 0 THEN <<>> ELSE resp.metas[1].key_start
             return_end == IF n = 0 THEN <<>> ELSE resp.metas[n].key_end
             s1 == UpdateTabletMetas(s, resp.metas)
             short == return_end # <<>>
                      /\ (scan.key_end = <<>> \/ KeyLess(return_end, scan.key_end))
             scan_meta_error == \/ n = 0
                                \/ KeyLess(scan.key_start, return_start)
                                \/ resp.complete /\ short
         IN  [s |-> IF scan_meta_error
                    THEN ScanMetaTableAsync(s1, scan.key_start, scan.key_end,
                                            scan.expand_key_end)
                    ELSE IF short
                    THEN ScanMetaTableAsync(s1, return_end, scan.key_end,
                                            scan.expand_key_end)
                    ELSE UpdateMetaAsync([s1 EXCEPT !.meta_updating_count_ = @ - 1]),
              ub |-> FALSE]

(***************************************************************************)
(* The actions of the SDK: the calls of the user, the answers of the       *)
(* servers, the tasks of thread_pool_ and the timeouts of task_pool_.      *)
(***************************************************************************)
SdkRest == <<async_blocking, clock, sdk_aborted, meta_table, openVars, gcVars, offVars>>
NoAnswer == [kind |-> "", ids |-> <<>>, codes |-> <<>>]
SdkStep(s) ==
    /\ SetSt(s)
    /\ answer' = NoAnswer
    /\ UNCHANGED <<SdkRest, fails_left>>

Tock ==
    /\ ~sdk_aborted
    /\ clock < MaxClock
    /\ clock' = clock + 1
    /\ answer' = NoAnswer
    /\ UNCHANGED <<async_blocking, sdk_aborted, meta_table, fails_left, taskVars, flowVars,
                   metaVars, packVars, rpcs, delay_tasks, stale_sent, openVars, gcVars,
                   offVars>>

(* The user hands in one mutation, one reader or one scan.                 *)
ApplyMutation(row, is_async) ==
    /\ ~sdk_aborted
    /\ next_task_id_ < MaxTask
    /\ LET id == next_task_id_ + 1
       IN  SdkStep(DistributeMutations(
               [St EXCEPT !.task[id] = NewTask("MUTATION", row, is_async, MutationSize(row))],
               <<id>>, TRUE))

Get(row, is_async) ==
    /\ ~sdk_aborted
    /\ next_task_id_ < MaxTask
    /\ LET id == next_task_id_ + 1
       IN  SdkStep(DistributeReaders(
               [St EXCEPT !.task[id] = NewTask("READ", row, is_async, 1)],
               <<id>>, TRUE))

Scan(row) ==
    /\ ~sdk_aborted
    /\ next_task_id_ < MaxTask
    /\ LET id == next_task_id_ + 1
       IN  SdkStep(ScanTabletAsync(
               [St EXCEPT !.task[id] = NewTask("SCAN", row, TRUE, 1)], id, TRUE))

(* The caller that slept in the flow control loop goes on.                 *)
WakeMutationCaller(id) ==
    /\ ~sdk_aborted
    /\ id \in blocked
    /\ task[id].type = "MUTATION"
    /\ cur_commit_pending_counter_ <= max_commit_pending_num_
    /\ LET g == GroupByAddr([St EXCEPT !.blocked = @ \ {id}], id, NoGroups)
       IN  SdkStep(PackMutationGroups(g.s, g.groups, AddrOrder))

WakeReaderCaller(id) ==
    /\ ~sdk_aborted
    /\ id \in blocked
    /\ task[id].type = "READ"
    /\ cur_reader_pending_counter_ <= max_reader_pending_num_
    /\ LET g == GroupByAddr([St EXCEPT !.blocked = @ \ {id}], id, NoGroups)
       IN  SdkStep(PackReaderGroups(g.s, g.groups, AddrOrder))

(* The tablets of the table: one tablet on ts1, which the master may split *)
(* at <<2>> with the second half loaded by ts2.                            *)
TabletMeta(key_start, key_end, server_addr) ==
    [key_start |-> key_start, key_end |-> key_end, server_addr |-> server_addr]
OneTablet == <<TabletMeta(<<>>, <<>>, "ts1")>>
TwoTablets == <<TabletMeta(<<>>, <<2>>, "ts1"), TabletMeta(<<2>>, <<>>, "ts2")>>
Serves(server_addr, row) ==
    \E i \in 1..Len(meta_table) :
        /\ meta_table[i].server_addr = server_addr
        /\ KeyLeq(meta_table[i].key_start, row)
        /\ meta_table[i].key_end = <<>> \/ KeyLess(row, meta_table[i].key_end)

SplitTable ==
    /\ ~sdk_aborted
    /\ meta_table = OneTablet
    /\ meta_table' = TwoTablets
    /\ answer' = NoAnswer
    /\ UNCHANGED <<async_blocking, clock, sdk_aborted, fails_left, taskVars, flowVars,
                   metaVars, packVars, rpcs, delay_tasks, stale_sent, openVars, gcVars,
                   offVars>>

(* The answers of a tablet server: kKeyNotInRange for the rows it does not *)
(* serve, a result or a transient error for the others, or no connection.  *)
(* No more than MaxFail answers come with a failed row.                    *)
WriteRowCodes == {"kTabletNodeOk", "kTxnFail", "kTabletNodeIsBusy"}
ReadRowCodes == {"kTabletNodeOk", "kKeyNotExist", "kSnapshotNotExist",
                 "kTabletNodeIsBusy"}
ScanCodes == {"kTabletNodeOk", "kSnapshotNotExist", "kTabletNodeIsBusy"}
RetryCodes == {"kKeyNotInRange", "kTabletNodeIsBusy", "kConnectError"}
RowCodes(server_addr, id, codes) ==
    IF Serves(server_addr, task[id].row) THEN codes ELSE {"kKeyNotInRange"}
Responses(rpc, codes) ==
    {[status |-> "kTabletNodeOk", row_status |-> rs] :
        rs \in {f \in [1..Len(rpc.ids) -> codes \cup {"kKeyNotInRange"}] :
                   \A i \in 1..Len(rpc.ids) :
                       f[i] \in RowCodes(rpc.server_addr, rpc.ids[i], codes)}}
    \cup {[status |-> "kConnectError", row_status |-> <<>>]}
(* What the server said of row i: its own status, or the failure of the    *)
(* whole RPC.                                                              *)
Said(resp, i) == IF resp.status # "kTabletNodeOk" THEN resp.status ELSE resp.row_status[i]
Failed(ids, resp) == \E i \in 1..Len(ids) : Said(resp, i) \in RetryCodes
Answer(kind, ids, resp) ==
    /\ Failed(ids, resp) => fails_left > 0
    /\ fails_left' = IF Failed(ids, resp) THEN fails_left - 1 ELSE fails_left
    /\ answer' = [kind |-> kind, ids |-> ids,
                  codes |-> [i \in 1..Len(ids) |-> Said(resp, i)]]

WriteTabletDone(rpc, resp) ==
    /\ ~sdk_aborted
    /\ rpc \in rpcs /\ rpc.kind = "write"
    /\ Answer(rpc.kind, rpc.ids, resp)
    /\ SetSt(MutateCallBack([St EXCEPT !.rpcs = @ \ {rpc}], rpc.ids, resp))
    /\ UNCHANGED SdkRest

ReadTabletDone(rpc, resp) ==
    /\ ~sdk_aborted
    /\ rpc \in rpcs /\ rpc.kind = "read"
    /\ Answer(rpc.kind, rpc.ids, resp)
    /\ SetSt(ReaderCallBack([St EXCEPT !.rpcs = @ \ {rpc}], rpc.ids, resp))
    /\ UNCHANGED SdkRest

ScanTabletDone(rpc, err) ==
    /\ ~sdk_aborted
    /\ rpc \in rpcs /\ rpc.kind = "scan"
    /\ err \in RowCodes(rpc.server_addr, rpc.ids[1], ScanCodes) \cup {"kConnectError"}
    /\ Answer(rpc.kind, rpc.ids, [status |-> err, row_status |-> <<err>>])
    /\ SetSt(ScanCallBack([St EXCEPT !.rpcs = @ \ {rpc}], rpc.ids[1], err))
    /\ UNCHANGED SdkRest

(* The deadline of a task in the pool passes.                              *)
MutationExpires(id) ==
    /\ ~sdk_aborted
    /\ id \in task_pool_ /\ task[id].type = "MUTATION"
    /\ SdkStep(MutationTimeout(PopTask(St, id), id))

ReaderExpires(id) ==
    /\ ~sdk_aborted
    /\ id \in task_pool_ /\ task[id].type = "READ"
    /\ SdkStep(ReaderTimeout(PopTask(St, id), id))

(* thread_pool_ runs a task; DelayUpdateMeta no sooner than its delay.      *)
Taken(d) == [St EXCEPT !.delay_tasks = @ \ {d}]
RunBreakRequest(d) ==
    /\ ~sdk_aborted /\ d \in delay_tasks /\ d.type = "BreakRequest"
    /\ SdkStep(BreakRequest(Taken(d), d.id))
RunDistributeMutationsById(d) ==
    /\ ~sdk_aborted /\ d \in delay_tasks /\ d.type = "DistributeMutationsById"
    /\ SdkStep(DistributeMutationsById(Taken(d), d.ids))
RunDistributeReadersById(d) ==
    /\ ~sdk_aborted /\ d \in delay_tasks /\ d.type = "DistributeReadersById"
    /\ SdkStep(DistributeReadersById(Taken(d), d.ids))
RunScanTabletAsync(d) ==
    /\ ~sdk_aborted /\ d \in delay_tasks /\ d.type = "ScanTabletAsync"
    /\ SdkStep(ScanTabletAsync(Taken(d), d.id, FALSE))
RunMutationBatchTimeout(d) ==
    /\ ~sdk_aborted /\ d \in delay_tasks /\ d.type = "MutationBatchTimeout"
    /\ SdkStep(MutationBatchTimeout(Taken(d), d.server_addr, d.batch_seq))
RunReaderBatchTimeout(d) ==
    /\ ~sdk_aborted /\ d \in delay_tasks /\ d.type = "ReaderBatchTimeout"
    /\ SdkStep(ReaderBatchTimeout(Taken(d), d.server_addr, d.batch_seq))
RunDelayUpdateMeta(d) ==
    /\ ~sdk_aborted /\ d \in delay_tasks /\ d.type = "DelayUpdateMeta"
    /\ clock >= d.due
    /\ SdkStep(DelayUpdateMeta(Taken(d), d.start_key, d.end_key))
RunScanMetaTableAsyncInLock(d) ==
    /\ ~sdk_aborted /\ d \in delay_tasks /\ d.type = "ScanMetaTableAsyncInLock"
    /\ root_table_addr = "" => root_empty_count < MaxRootTry
    /\ SdkStep(ScanMetaTableAsync(Taken(d), d.key_start, d.key_end, d.expand_key_end))

(* What a scan of the meta table from key_start returns.                   *)
RECURSIVE ScanRange(_, _, _)
ScanRange(layout, key_start, expand_key_end) ==
    IF layout = <<>> THEN <<>>
    ELSE LET m == Head(layout)
             in == /\ m.key_end = <<>> \/ KeyLess(key_start, m.key_end)
                   /\ expand_key_end = <<>> \/ KeyLess(m.key_start, expand_key_end)
         IN  (IF in THEN <<m>> ELSE <<>>)
             \o ScanRange(Tail(layout), key_start, expand_key_end)
MetaResponses(scan) ==
    {[status |-> "kConnectError", metas |-> <<>>, complete |-> FALSE]}
    \cup LET all == ScanRange(meta_table, scan.key_start, scan.expand_key_end)
         IN  {[status |-> "kTabletNodeOk", metas |-> SubSeq(all, 1, n),
               complete |-> n = Len(all)] : n \in 1..Len(all)}

ScanMetaTableDone(scan, resp) ==
    /\ ~sdk_aborted
    /\ scan \in meta_scans
    /\ LET r == ScanMetaTableCallBack([St EXCEPT !.meta_scans = @ \ {scan}], scan, resp)
       IN  \/ /\ SetSt(r.s)
              /\ answer' = [kind |-> "meta", ids |-> <<>>, codes |-> <<resp.status>>]
              /\ UNCHANGED <<SdkRest, fails_left>>
           \/ /\ r.ub
              /\ sdk_aborted' = TRUE
              /\ answer' = NoAnswer
              /\ UNCHANGED <<async_blocking, clock, meta_table, fails_left, taskVars,
                             flowVars, metaVars, packVars, rpcs, delay_tasks,
                             stale_sent, openVars, gcVars, offVars>>

(* A caller of ScanMetaTable: the scan is counted and sent, and the caller  *)
(* waits on meta_cond_ until no scan is counted.  Requests in flight are a *)
(* set, so the call is taken when no equal request is in flight.           *)
MetaCallRanges == {<<<<>>, <<2>>>>, <<<<2>>, <<>>>>}
ScanMetaTable(key_start, key_end) ==
    /\ ~sdk_aborted
    /\ meta_callers < MaxMetaCall
    /\ LET scan == [key_start |-> key_start, key_end |-> key_end,
                    expand_key_end |-> key_end]
       IN  scan \notin meta_scans /\ ScanMetaRetry(scan) \notin delay_tasks
    /\ SetSt(ScanMetaTableAsync([St EXCEPT !.meta_updating_count_ = @ + 1],
                                key_start, key_end, key_end))
    /\ meta_callers' = meta_callers + 1
    /\ answer' = NoAnswer
    /\ UNCHANGED <<async_blocking, clock, sdk_aborted, meta_table, fails_left,
                   table_meta_updating_, ret_err, table_reads, gcVars, offVars>>

ScanMetaTableReturns ==
    /\ ~sdk_aborted
    /\ meta_callers > 0
    /\ ~(meta_updating_count_ > 0)
    /\ meta_callers' = meta_callers - 1
    /\ answer' = NoAnswer
    /\ UNCHANGED <<async_blocking, clock, sdk_aborted, meta_table, fails_left, taskVars,
                   flowVars, metaVars, packVars, rpcs, delay_tasks, stale_sent,
                   table_meta_updating_, ret_err, table_reads, gcVars, offVars>>

(* The coordination service gets or loses the address of the root tablet.  *)
RootChanges ==
    /\ ~sdk_aborted
    /\ root_table_addr' = IF root_table_addr = "" THEN RootAddr ELSE ""
    /\ answer' = NoAnswer
    /\ UNCHANGED <<async_blocking, clock, sdk_aborted, meta_table, fails_left, taskVars,
                   flowVars, tablet_meta_list_, pending_task_id_list_,
                   meta_updating_count_, meta_scans, root_empty_count, packVars, rpcs,
                   delay_tasks, stale_sent, openVars, gcVars, offVars>>

(* The read of the table meta at OpenInternal.                             *)
Tm ==
    [table_meta_updating_ |-> table_meta_updating_, ret_err |-> ret_err,
     table_reads |-> table_reads, delay_tasks |-> delay_tasks]
ReadTableMetaAsync(t, retry_times) ==
    IF root_table_addr = ""
    THEN IF retry_times >= tera_sdk_retry_times
         THEN [t EXCEPT !.ret_err = "kSystem", !.table_meta_updating_ = FALSE]
         ELSE [t EXCEPT !.delay_tasks = @ \cup
                  {[type |-> "ReadTableMetaAsync", retry_times |-> retry_times + 1,
                    delay |-> RetryInterval(retry_times)]}]
    ELSE [t EXCEPT !.table_reads = @ \cup {[retry_times |-> retry_times]}]

ReadTableMetaCallBack(t, retry_times, err) ==
    IF err = "kTabletNodeOk"
    THEN [t EXCEPT !.ret_err = "kOK", !.table_meta_updating_ = FALSE]
    ELSE IF err \in {"kKeyNotExist", "kSnapshotNotExist"}
    THEN [t EXCEPT !.ret_err = "kNotFound", !.table_meta_updating_ = FALSE]
    ELSE IF retry_times >= tera_sdk_retry_times
    THEN [t EXCEPT !.ret_err = "kSystem", !.table_meta_updating_ = FALSE]
    ELSE [t EXCEPT !.delay_tasks = @ \cup
             {[type |-> "ReadTableMetaAsync", retry_times |-> retry_times + 1,
               delay |-> RetryInterval(retry_times)]}]

TmStep(t) ==
    /\ table_meta_updating_' = t.table_meta_updating_
    /\ ret_err' = t.ret_err
    /\ table_reads' = t.table_reads
    /\ delay_tasks' = t.delay_tasks
    /\ answer' = NoAnswer
    /\ UNCHANGED <<async_blocking, clock, sdk_aborted, meta_table, fails_left, taskVars,
                   flowVars, metaVars, packVars, rpcs, stale_sent, meta_callers, gcVars,
                   offVars>>

UpdateTableMeta ==
    /\ ~sdk_aborted
    /\ ~table_meta_updating_
    /\ TmStep(ReadTableMetaAsync([Tm EXCEPT !.table_meta_updating_ = TRUE], 0))

RunReadTableMetaAsync(d) ==
    /\ ~sdk_aborted /\ d \in delay_tasks /\ d.type = "ReadTableMetaAsync"
    /\ TmStep(ReadTableMetaAsync([Tm EXCEPT !.delay_tasks = @ \ {d}], d.retry_times))

TableMetaCodes == {"kTabletNodeOk", "kKeyNotExist", "kSnapshotNotExist", "kConnectError"}
ReadTableMetaDone(rd, err) ==
    /\ ~sdk_aborted
    /\ rd \in table_reads
    /\ TmStep(ReadTableMetaCallBack([Tm EXCEPT !.table_reads = @ \ {rd}],
                                    rd.retry_times, err))

(***************************************************************************)
(* A lookup in a meta cache of up to MaxNodes tablets.                     *)
(***************************************************************************)
LkKeys == {<<>>, <<0>>, <<1>>, <<1, 0>>, <<2>>}
LkRange(key_start, key_end) == key_end = <<>> \/ KeyLess(key_start, key_end)
LkCaches ==
    {list \in UNION {[starts -> LkKeys] :
                        starts \in {S \in SUBSET LkKeys : Cardinality(S) <= MaxNodes}} :
        /\ \A a \in DOMAIN list : LkRange(a, list[a])
        /\ \A a, b \in DOMAIN list :
               KeyLess(a, b) => list[a] # <<>> /\ KeyLeq(list[a], b)}
LkList(ends) == [k \in DOMAIN ends |-> NewNode(k, ends[k], "ts1", "NORMAL", 0)]

Lookup(key) ==
    /\ lk_key' = key
    /\ lk_result' = <<GetTabletMetaNodeForKey(tablet_meta_list_, key)>>
    /\ UNCHANGED <<gcVars, sdkVars, tabletVars, moreVars>>

(* One record of a scan of the meta table is put into the cache. *)
RunUpdateTabletMetaList(new_meta) ==
    /\ ~sdk_aborted
    /\ SdkStep(UpdateTabletMetaList(St, new_meta))

(***************************************************************************)
(* The status of a tablet in the master.  Tablet::SetStatus and its        *)
(* variants are declared in tablet_manager.h; the graph of                 *)
(* CheckStatusSwitch follows the tablet lifecycle of the specification.    *)
(***************************************************************************)
TabletStatus ==
    {"kTableNotInit", "kTableOffLine", "kTableWaitLoad", "kTableOnLoad", "kTableLoadFail",
     "kTableReady", "kTableUnLoading", "kTableUnLoad"}
TabletAddrs == {"ts1", "ts2"}
StatusSwitches ==
    {<<"kTableNotInit", "kTableOffLine">>, <<"kTableNotInit", "kTableReady">>,
     <<"kTableOffLine", "kTableWaitLoad">>, <<"kTableWaitLoad", "kTableOnLoad">>,
     <<"kTableOnLoad", "kTableReady">>, <<"kTableOnLoad", "kTableLoadFail">>,
     <<"kTableLoadFail", "kTableOnLoad">>, <<"kTableLoadFail", "kTableOffLine">>,
     <<"kTableReady", "kTableUnLoading">>, <<"kTableReady", "kTableOffLine">>,
     <<"kTableUnLoading", "kTableUnLoad">>, <<"kTableUnLoad", "kTableOffLine">>}
CheckStatusSwitch(old_status, new_status) == <<old_status, new_status>> \in StatusSwitches

NoCall == [op |-> "", new_status |-> "", if_status |-> "", server_addr |-> "",
           ret |-> FALSE]
Call(op, server_addr, new_status, if_status, ret) ==
    [op |-> op, new_status |-> new_status, if_status |-> if_status,
     server_addr |-> server_addr, ret |-> ret]

SetStatus(new_status) ==
    /\ tablet_call' = Call("SetStatus", "", new_status, "",
                           CheckStatusSwitch(tablet_status, new_status))
    /\ tablet_status' = IF CheckStatusSwitch(tablet_status, new_status)
                        THEN new_status ELSE tablet_status
    /\ UNCHANGED <<tablet_addr, gcVars, sdkVars, lkVars, moreVars>>

(* The slip: the current status is not compared with if_status.            *)
SetStatusIf_Any(new_status, if_status) ==
    /\ tablet_call' = Call("SetStatusIf", "", new_status, if_status,
                           CheckStatusSwitch(tablet_status, new_status))
    /\ tablet_status' = IF CheckStatusSwitch(tablet_status, new_status)
                        THEN new_status ELSE tablet_status
    /\ UNCHANGED <<tablet_addr, gcVars, sdkVars, lkVars, moreVars>>

SetStatusIf(new_status, if_status) ==
    /\ tablet_call' = Call("SetStatusIf", "", new_status, if_status,
                           /\ tablet_status = if_status
                           /\ CheckStatusSwitch(tablet_status, new_status))
    /\ tablet_status' = IF /\ tablet_status = if_status
                           /\ CheckStatusSwitch(tablet_status, new_status)
                        THEN new_status ELSE tablet_status
    /\ UNCHANGED <<tablet_addr, gcVars, sdkVars, lkVars, moreVars>>

SetAddrAndStatusIf(server_addr, new_status, if_status) ==
    /\ tablet_call' = Call("SetAddrAndStatusIf", server_addr, new_status, if_status,
                           /\ tablet_status = if_status
                           /\ CheckStatusSwitch(tablet_status, new_status))
    /\ tablet_status' = IF /\ tablet_status = if_status
                           /\ CheckStatusSwitch(tablet_status, new_status)
                        THEN new_status ELSE tablet_status
    /\ tablet_addr' = IF /\ tablet_status = if_status
                         /\ CheckStatusSwitch(tablet_status, new_status)
                      THEN server_addr ELSE tablet_addr
    /\ UNCHANGED <<gcVars, sdkVars, lkVars, moreVars>>

(***************************************************************************)
(* gc_mutex_.  The GC timer of the master runs PreQuery and PostQuery, a   *)
(* query callback runs ProcessQueryCallbackForGc, a table drop runs Clear. *)
(* A method is entered, its body runs, and it is left; the methods that    *)
(* open with MutexLock lock(&gc_mutex_) wait for the mutex when entering   *)
(* and give it back when leaving.                                          *)
(***************************************************************************)
GcThreads == {"timer", "query", "drop"}
GcMethods(th) ==
    IF th = "timer" THEN {"PreQuery", "PostQuery"}
    ELSE IF th = "query" THEN {"ProcessQueryCallbackForGc"}
    ELSE {"Clear"}

(* MutexLock lock(&gc_mutex_) is the first statement of the method. *)
TakesGcMutex(m) ==
    IF strategy = "batch"
    THEN m = "ProcessQueryCallbackForGc"
    ELSE m \in {"ProcessQueryCallbackForGc", "Clear"}

(* BatchGcStrategy::Clear has an empty body; every other method reads or   *)
(* writes the maps of its strategy.                                        *)
TouchesGcState(m) == ~(strategy = "batch" /\ m = "Clear")

GcEnter(th, m) ==
    /\ ~gc_crashed
    /\ gc_pc[th] = ""
    /\ m \in GcMethods(th)
    /\ TakesGcMutex(m) => gc_mutex_ = ""
    /\ gc_pc' = [gc_pc EXCEPT ![th] = m]
    /\ gc_mutex_' = IF TakesGcMutex(m) THEN th ELSE gc_mutex_
    /\ UNCHANGED lockRest

GcLeave(th) ==
    /\ gc_pc[th] # ""
    /\ gc_pc' = [gc_pc EXCEPT ![th] = ""]
    /\ gc_mutex_' = IF gc_mutex_ = th THEN "" ELSE gc_mutex_
    /\ UNCHANGED lockRest

GcInside(th, m) == gc_pc[th] = m

(***************************************************************************)
(*                PART IV  --  the tablet server's adapter                 *)
(*                                                                         *)
(* The store holds the serve node of the server ("self"), its kick mark,   *)
(* the safemode mark and the root tablet node.  A watched path sends one   *)
(* event for each create, delete or change; the events of the paths are    *)
(* handed to the adapter in the order they happened.  impl is the adapter  *)
(* the server was built with: "zk" (TabletNodeZkAdapter), "fake"           *)
(* (FakeTabletNodeZkAdapter) or "ins" (InsTabletNodeZkAdapter).            *)
(***************************************************************************)
MaxZkOps == 3
CoordPaths == {"self", "kick", "safemode", "root"}
RootValues == {"", "ts0", "ts1"}
NoEvent == [path |-> "", type |-> "", value |-> ""]

(* _Exit(EXIT_FAILURE) after LOG(ERROR) << msg; a failed CHECK also ends   *)
(* the process.                                                            *)
ExitProcess(n, msg) == [n EXCEPT !.exited = TRUE, !.log = msg]

(* The slip: the session loss is logged and the server goes on.            *)
OnSessionTimeout_Stay(n) == [n EXCEPT !.log = "zk session timeout!"]

OnSessionTimeout(n) == ExitProcess(n, "zk session timeout!")
OnWatchFailed(n) == ExitProcess(n, "watch fail!")
OnKickMarkCreated(n) == ExitProcess(n, "kick mark node is created")
OnSelfNodeDeleted(n) == ExitProcess(n, "self node is deleted")
OnSafeModeMarkCreated(n) == [n EXCEPT !.safe_mode = TRUE]
OnSafeModeMarkDeleted(n) == [n EXCEPT !.safe_mode = FALSE]
SetRootTabletAddr(n, addr) == [n EXCEPT !.root_tablet_addr = addr]

(* WatchRootNode: the value read when the node exists, "" otherwise. *)
WatchRootNode(z) == IF "root" \in z.nodes THEN z.root_value ELSE ""
OnRootNodeCreated(n, z) ==
    IF WatchRootNode(z) # "" THEN SetRootTabletAddr(n, WatchRootNode(z)) ELSE n
OnRootNodeDeleted(n, z) ==
    IF WatchRootNode(z) # "" THEN SetRootTabletAddr(n, WatchRootNode(z)) ELSE n
OnRootNodeChanged(n, value) == SetRootTabletAddr(n, value)

OnNodeValueChanged(n, path, value) ==
    IF path = "root" THEN OnRootNodeChanged(n, value) ELSE n
OnNodeCreated(n, z, path) ==
    IF path = "safemode" THEN OnSafeModeMarkCreated(n)
    ELSE IF path = "root" THEN OnRootNodeCreated(n, z)
    ELSE IF path = "kick" THEN OnKickMarkCreated(n)
    ELSE n
OnNodeDeleted(n, z, path) ==
    IF path = "safemode" THEN OnSafeModeMarkDeleted(n)
    ELSE IF path = "root" THEN OnRootNodeDeleted(n, z)
    ELSE IF path = "self" THEN OnSelfNodeDeleted(n)
    ELSE n

(* InsTabletNodeZkAdapter *)
InsSessionId == "sid"
InsOnKick(n) == ExitProcess(n, "I am kicked by master")
OnLockChange(n, session_id, is_deleted) ==
    IF is_deleted \/ session_id # InsSessionId
    THEN ExitProcess(n, "I lost my lock , so quit")
    ELSE n
OnMetaChange(n, z) ==
    IF WatchRootNode(z) # "" THEN SetRootTabletAddr(n, WatchRootNode(z)) ELSE n

(* The watcher of the adapter: the handler an event is passed to. *)
Dispatch(n, z, e) ==
    IF n.impl = "zk"
    THEN IF e.type = "created" THEN OnNodeCreated(n, z, e.path)
         ELSE IF e.type = "deleted" THEN OnNodeDeleted(n, z, e.path)
         ELSE IF e.type = "changed" THEN OnNodeValueChanged(n, e.path, e.value)
         ELSE OnWatchFailed(n)
    ELSE IF e.path = "kick" THEN InsOnKick(n)
    ELSE IF e.path = "self" THEN OnLockChange(n, e.value, e.type = "deleted")
    ELSE OnMetaChange(n, z)

(* The store tells the watcher of a path; a watch of the "ins" store is    *)
(* spent by the event it sends.                                            *)
Notify(z, path, type, value) ==
    IF path \in z.watches
    THEN [z EXCEPT !.events = Append(@, [path |-> path, type |-> type, value |-> value]),
                   !.watches = IF ts_node.impl = "ins" THEN @ \ {path} ELSE @]
    ELSE z

(* TabletNodeZkAdapter::Init, one blocking call of the store at a time; a  *)
(* call that fails is repeated after tera_zk_retry_period.                 *)
ZkInit ==
    /\ ts_node.impl = "zk" /\ ~ts_node.exited /\ ts_node.pc = "start"
    /\ zk' = [zk EXCEPT !.session = "ok"]
    /\ ts_node' = [ts_node EXCEPT !.pc = "connected"]
    /\ UNCHANGED coordRest

ZkGetSessionId ==
    /\ ts_node.impl = "zk" /\ ~ts_node.exited /\ ts_node.pc = "connected"
    /\ ts_node' = IF zk.session = "ok"
                  THEN [ts_node EXCEPT !.pc = "running", !.status = "kIsRunning"]
                  ELSE [ts_node EXCEPT !.pc = "returned"]
    /\ UNCHANGED <<zk, coordRest>>

ZkRegister ==
    /\ ts_node.impl = "zk" /\ ~ts_node.exited /\ ts_node.pc = "running"
    /\ zk.session = "ok"
    /\ zk' = [zk EXCEPT !.nodes = @ \cup {"self"}]
    /\ ts_node' = [ts_node EXCEPT !.pc = "registered", !.registered = TRUE]
    /\ UNCHANGED coordRest

ZkWatchSelfNode ==
    /\ ts_node.impl = "zk" /\ ~ts_node.exited /\ ts_node.pc = "registered"
    /\ zk.session = "ok"
    /\ zk' = [zk EXCEPT !.watches = @ \cup {"self"}]
    /\ ts_node' = LET n == [ts_node EXCEPT !.pc = "self_watched"]
                  IN  IF "self" \notin zk.nodes THEN OnSelfNodeDeleted(n) ELSE n
    /\ UNCHANGED coordRest

ZkWatchKickMark ==
    /\ ts_node.impl = "zk" /\ ~ts_node.exited /\ ts_node.pc = "self_watched"
    /\ zk.session = "ok"
    /\ zk' = [zk EXCEPT !.watches = @ \cup {"kick"}]
    /\ ts_node' = LET n == [ts_node EXCEPT !.pc = "kick_watched"]
                  IN  IF "kick" \in zk.nodes THEN OnKickMarkCreated(n) ELSE n
    /\ UNCHANGED coordRest

ZkWatchSafeModeMark ==
    /\ ts_node.impl = "zk" /\ ~ts_node.exited /\ ts_node.pc = "kick_watched"
    /\ zk.session = "ok"
    /\ zk' = [zk EXCEPT !.watches = @ \cup {"safemode"}]
    /\ ts_node' = LET n == [ts_node EXCEPT !.pc = "safemode_watched"]
                  IN  IF "safemode" \in zk.nodes THEN OnSafeModeMarkCreated(n) ELSE n
    /\ UNCHANGED coordRest

ZkWatchRootNode ==
    /\ ts_node.impl = "zk" /\ ~ts_node.exited /\ ts_node.pc = "safemode_watched"
    /\ zk.session = "ok"
    /\ zk' = [zk EXCEPT !.watches = @ \cup {"root"}]
    /\ ts_node' = LET n == [ts_node EXCEPT !.pc = "done"]
                  IN  IF WatchRootNode(zk) # "" THEN SetRootTabletAddr(n, WatchRootNode(zk)) ELSE n
    /\ UNCHANGED coordRest

(* FakeTabletNodeZkAdapter::Init: Register writes the serve node, and the  *)
(* process exits when the write fails.                                     *)
FakeInit(written) ==
    /\ ts_node.impl = "fake" /\ ~ts_node.exited /\ ts_node.pc = "start"
    /\ IF written
       THEN /\ zk' = [zk EXCEPT !.nodes = @ \cup {"self"}]
            /\ ts_node' = [ts_node EXCEPT !.pc = "done", !.status = "kIsRunning",
                                          !.registered = TRUE]
       ELSE /\ ts_node' = ExitProcess([ts_node EXCEPT !.status = "kIsRunning"], "fake zk error")
            /\ UNCHANGED zk
    /\ UNCHANGED coordRest

(* InsTabletNodeZkAdapter::Init: Lock, then the three Watch calls, each    *)
(* under a CHECK.  Watch subscribes and does not look at the key.          *)
InsLock ==
    /\ ts_node.impl = "ins" /\ ~ts_node.exited /\ ts_node.pc = "start"
    /\ zk' = [zk EXCEPT !.session = "ok", !.nodes = @ \cup {"self"}]
    /\ ts_node' = [ts_node EXCEPT !.pc = "registered", !.status = "kIsRunning",
                                  !.registered = TRUE]
    /\ UNCHANGED coordRest

InsWatch(pc, path, next) ==
    /\ ts_node.impl = "ins" /\ ~ts_node.exited /\ ts_node.pc = pc
    /\ IF zk.session = "ok"
       THEN /\ zk' = [zk EXCEPT !.watches = @ \cup {path}]
            /\ ts_node' = [ts_node EXCEPT !.pc = next]
       ELSE /\ ts_node' = ExitProcess(ts_node, "watch fail")
            /\ UNCHANGED zk
    /\ UNCHANGED coordRest

InsWatchKick == InsWatch("registered", "kick", "kick_watched")
InsWatchLock == InsWatch("kick_watched", "self", "self_watched")
InsWatchMeta == InsWatch("self_watched", "root", "done")

(* The watcher thread takes the next event.  A handler of the root node    *)
(* repeats WatchRootNode until it succeeds, and OnMetaChange watches again *)
(* under a CHECK.                                                          *)
DeliverEvent ==
    /\ ~ts_node.exited
    /\ zk.events # <<>>
    /\ LET e == Head(zk.events)
           rewatch == ts_node.impl = "ins" /\ e.path = "root"
       IN  /\ (ts_node.impl = "zk" /\ e.path = "root" /\ e.type # "changed") => zk.session = "ok"
           /\ IF rewatch /\ zk.session # "ok"
              THEN /\ ts_node' = ExitProcess(ts_node, "watch meta table fail")
                   /\ zk' = [zk EXCEPT !.events = Tail(@), !.last_event = e]
              ELSE /\ ts_node' = Dispatch(ts_node, zk, e)
                   /\ zk' = [zk EXCEPT !.events = Tail(@), !.last_event = e,
                                       !.watches = IF rewatch THEN @ \cup {"root"} ELSE @]
    /\ UNCHANGED coordRest

(* The session watcher of the "zk" store reports the expired session. *)
DeliverSessionTimeout ==
    /\ ts_node.impl = "zk" /\ ~ts_node.exited
    /\ zk.session = "lost"
    /\ zk.last_event.type # "session_timeout"
    /\ ts_node' = OnSessionTimeout(ts_node)
    /\ zk' = [zk EXCEPT !.last_event = [path |-> "", type |-> "session_timeout", value |-> ""]]
    /\ UNCHANGED coordRest

(* The rest of the cluster: the master and the operator create and delete  *)
(* nodes, the root tablet moves, the session expires, a watch fails.       *)
ZkCreate(path, value) ==
    /\ zk.ops < MaxZkOps
    /\ path \in {"kick", "safemode", "root"}
    /\ path \notin zk.nodes
    /\ zk' = [Notify(zk, path, "created", value) EXCEPT
                  !.nodes = @ \cup {path},
                  !.root_value = IF path = "root" THEN value ELSE @,
                  !.ops = @ + 1]
    /\ UNCHANGED <<ts_node, coordRest>>

ZkDelete(path) ==
    /\ zk.ops < MaxZkOps
    /\ path \in zk.nodes
    /\ zk' = [Notify(zk, path, "deleted", "") EXCEPT !.nodes = @ \ {path}, !.ops = @ + 1]
    /\ UNCHANGED <<ts_node, coordRest>>

ZkSetRoot(value) ==
    /\ zk.ops < MaxZkOps
    /\ "root" \in zk.nodes
    /\ value # zk.root_value
    /\ zk' = [Notify(zk, "root", "changed", value) EXCEPT !.root_value = value, !.ops = @ + 1]
    /\ UNCHANGED <<ts_node, coordRest>>

SessionExpires ==
    /\ zk.ops < MaxZkOps
    /\ zk.session = "ok"
    /\ zk' = [Notify(zk, "self", "deleted", "") EXCEPT
                  !.session = "lost", !.nodes = @ \ {"self"}, !.ops = @ + 1]
    /\ UNCHANGED <<ts_node, coordRest>>

WatchFails(path) ==
    /\ zk.ops < MaxZkOps
    /\ ts_node.impl = "zk"
    /\ path \in zk.watches
    /\ zk' = [zk EXCEPT !.events = Append(@, [path |-> path, type |-> "watch_failed", value |-> ""]),
                        !.watches = @ \ {path}, !.ops = @ + 1]
    /\ UNCHANGED <<ts_node, coordRest>>

(***************************************************************************)
(*                PART V  --  ClientImpl::UpdateTable                      *)
(*                                                                         *)
(* A schema is its locality groups, its column families and the other      *)
(* properties of the table; each is one of two values.  The master         *)
(* answers ShowTables with the table it holds.                             *)
(***************************************************************************)
SchemaParts == {0, 1}
Schemas == [lgs : SchemaParts, cfs : SchemaParts, props : SchemaParts]
IsSchemaLgDiff(a, b) == a.lgs # b.lgs
IsSchemaCfDiff(a, b) == a.cfs # b.cfs
UpdateStatus == {"kMasterOk", "kInvalidArgument", "kNotPermission", "kTableStatusEnable"}
NoUpdateCall ==
    [called |-> FALSE, ret |-> FALSE, err |-> "kOK", sent |-> FALSE, enabled |-> FALSE,
     lg_diff |-> FALSE, cf_diff |-> FALSE, rpc_ok |-> <<TRUE, TRUE, TRUE>>]

(* CheckReturnValue: the ErrorCode of a master status. *)
CheckReturnValue(status) ==
    IF status = "kMasterOk" THEN "kOK"
    ELSE IF status = "kInvalidArgument" THEN "kBadParam"
    ELSE IF status = "kNotPermission" THEN "kNoAuth"
    ELSE "kSystem"

(* GetInternalTableName and ListInternal for one table: nothing is listed  *)
(* when the meta scan or the ShowTables RPC fails, and err becomes kSystem. *)
ListInternal(rpc_ok) == IF rpc_ok /\ master_table.exists THEN {master_table} ELSE {}
IsTableExist(rpc_ok) == ListInternal(rpc_ok) # {}
GetTableDescriptor(rpc_ok) == ListInternal(rpc_ok)
IsTableEnabled(rpc_ok) == \E t \in ListInternal(rpc_ok) : t.status = "kTableEnable"
ErrAfterList(err, rpc_ok) == IF rpc_ok THEN err ELSE "kSystem"

(* UpdateTable(desc, err): three ShowTables round trips, the test of the   *)
(* compatibility mode, then the UpdateTable RPC, which the master answers  *)
(* with status when it arrives.                                            *)
UpdateTable(desc, ok1, ok2, ok3, ok4, status) ==
    LET call == [NoUpdateCall EXCEPT
                    !.called = TRUE,
                    !.enabled = master_table.exists /\ master_table.status = "kTableEnable",
                    !.lg_diff = master_table.exists /\ IsSchemaLgDiff(desc, master_table.schema),
                    !.cf_diff = master_table.exists /\ IsSchemaCfDiff(desc, master_table.schema),
                    !.rpc_ok = <<ok1, ok2, ok3>>]
        err1 == ErrAfterList("kOK", ok1)
        err3 == ErrAfterList(err1, ok3)
    IN  IF ~IsTableExist(ok1)
        THEN /\ update_call' = [call EXCEPT !.err = err1]
             /\ UNCHANGED master_table
        ELSE IF GetTableDescriptor(ok2) = {}
        THEN /\ update_call' = [call EXCEPT !.err = err1]
             /\ UNCHANGED master_table
        ELSE LET old_schema == (CHOOSE t \in GetTableDescriptor(ok2) : TRUE).schema
                 is_update_lg == IsSchemaLgDiff(desc, old_schema)
                 is_update_cf == IsSchemaCfDiff(desc, old_schema)
             IN  IF /\ ~online_schema_update_enabled
                    /\ IsTableEnabled(ok3)
                    /\ (is_update_lg \/ is_update_cf)
                 THEN /\ update_call' = [call EXCEPT !.err = "kBadParam"]
                      /\ UNCHANGED master_table
                 ELSE IF ok4
                 THEN /\ update_call' = [call EXCEPT !.sent = TRUE,
                                                     !.ret = (status = "kMasterOk"),
                                                     !.err = CheckReturnValue(status)]
                      /\ master_table' = IF status = "kMasterOk"
                                         THEN [master_table EXCEPT !.schema = desc]
                                         ELSE master_table
                 ELSE /\ update_call' = [call EXCEPT !.sent = TRUE, !.err = "kSystem"]
                      /\ UNCHANGED master_table

ClientUpdateTable(desc, ok1, ok2, ok3, ok4, status) ==
    /\ UpdateTable(desc, ok1, ok2, ok3, ok4, status)
    /\ UNCHANGED <<online_schema_update_enabled, clientRest>>

(* Other clients enable, disable, drop and create the table. *)
SetTableStatus(status) ==
    /\ master_table.exists
    /\ master_table.status # status
    /\ master_table' = [master_table EXCEPT !.status = status]
    /\ UNCHANGED <<online_schema_update_enabled, update_call, clientRest>>

DropTable ==
    /\ master_table.exists
    /\ master_table.status = "kTableDisable"
    /\ master_table' = [master_table EXCEPT !.exists = FALSE]
    /\ UNCHANGED <<online_schema_update_enabled, update_call, clientRest>>

CreateTable(desc) ==
    /\ ~master_table.exists
    /\ master_table' = [exists |-> TRUE, status |-> "kTableEnable", schema |-> desc]
    /\ UNCHANGED <<online_schema_update_enabled, update_call, clientRest>>

(***************************************************************************)
(*                PART VI  --  TabletIO::FindAverageKey                    *)
(*                                                                         *)
(* A key is a sequence of bytes.  Both keys are read as base-256 fractions *)
(* of one length (start padded with 0x00; an empty end is +infinity, all   *)
(* 0xFF), the fractions are added digit by digit from the right and the    *)
(* sum is halved from the left; the result is cut after the first byte,    *)
(* at or after the first differing one, that makes it greater than start.  *)
(***************************************************************************)
MaxKeyLen == 3
ByteSet == {0, 1, 128, 255}
KeysUpTo(n) == UNION {[1..m -> ByteSet] : m \in 0..n}

BytesLess(a, b) ==
    \E i \in 1..Len(b) :
        /\ i - 1 <= Len(a)
        /\ \A j \in 1..(i - 1) : a[j] = b[j]
        /\ IF i > Len(a) THEN TRUE ELSE a[i] < b[i]
PadKey(k, n, b) == [i \in 1..n |-> IF i <= Len(k) THEN k[i] ELSE b]
KeyPrefix(k, n) == [i \in 1..n |-> k[i]]
MaxOf(a, b) == IF a < b THEN b ELSE a

(* The carry into byte i of the sum, and byte i of the sum. *)
RECURSIVE SumCarry(_, _, _)
SumCarry(s, e, i) ==
    IF i > Len(s) THEN 0 ELSE (s[i] + e[i] + SumCarry(s, e, i + 1)) \div 256
SumByte(s, e, i) == (s[i] + e[i] + SumCarry(s, e, i + 1)) % 256

(* The remainder left after halving bytes 1..i of the sum. *)
RECURSIVE HalfRest(_, _, _)
HalfRest(s, e, i) ==
    IF i = 0 THEN SumCarry(s, e, 1)
    ELSE (HalfRest(s, e, i - 1) * 256 + SumByte(s, e, i)) % 2
AverageKey(s, e) ==
    [i \in 1..Len(s) |-> (HalfRest(s, e, i - 1) * 256 + SumByte(s, e, i)) \div 2]

(* The number of leading bytes the padded keys share. *)
DiffPos(s, e) ==
    CHOOSE d \in 0..Len(s) :
        /\ \A j \in 1..d : s[j] = e[j]
        /\ d < Len(s) => s[d + 1] # e[d + 1]

(* The slip: the average is cut right after the first differing byte.      *)
CutAverage_NoCarry(start, ave, from) == KeyPrefix(ave, from)

(* Carry down: the shortest prefix of the average, of at least from bytes, *)
(* that is greater than start.                                             *)
CutAverage(start, ave, from) ==
    LET n == CHOOSE m \in from..Len(ave) :
                 /\ BytesLess(start, KeyPrefix(ave, m))
                 /\ \A l \in from..(m - 1) : ~BytesLess(start, KeyPrefix(ave, l))
    IN  KeyPrefix(ave, n)

(* The slip: only the first bytes are compared.                            *)
FindFails_Head(s, e) == s[1] = e[1]

(* if (s == e) return false, on the padded keys: "a" and "a\0" *)
FindFails(s, e) == s = e

FindAverageKey(start, end) ==
    LET e0 == IF end = <<>> THEN [i \in 1..(Len(start) + 1) |-> 255] ELSE end
        max_len == MaxOf(Len(start), Len(e0)) + 1
        s == PadKey(start, max_len, 0)
        e == PadKey(e0, max_len, 0)
    IN  IF FindFails(s, e)
        THEN [called |-> TRUE, ret |-> FALSE, ave |-> <<>>]
        ELSE [called |-> TRUE, ret |-> TRUE,
              ave |-> CutAverage(start, AverageKey(s, e), DiffPos(s, e) + 1)]

(* TEST_F(TabletIOTest, FindAverageKey), with a = 97, b = 98, ... *)
FindAverageKeyTest ==
    LET hello == <<104, 101, 108, 108, 111>>
        abc == FindAverageKey(<<97, 98, 99>>, <<97, 98, 101>>)
    IN  /\ abc.ret /\ BytesLess(<<97, 98, 99>>, abc.ave) /\ BytesLess(abc.ave, <<97, 98, 101>>)
        /\ FindAverageKey(hello \o <<97>>, hello \o <<98>>).ave = hello \o <<97, 128>>
        /\ FindAverageKey(<<97>>, <<98>>).ave = <<97, 128>>
        /\ FindAverageKey(<<>>, <<>>).ave = <<127>>
        /\ FindAverageKey(<<>>, <<98>>).ave[1] = 49
        /\ FindAverageKey(<<>>, <<1>>).ave = <<0>>
        /\ ~FindAverageKey(<<>>, <<0>>).ret
        /\ ~FindAverageKey(<<97, 97, 97>>, <<97, 97, 97, 0>>).ret
        /\ FindAverageKey(<<97, 255, 255>>, <<98>>).ave = <<97, 255, 255, 128>>

CallFindAverageKey ==
    /\ ~fa_out.called
    /\ fa_out' = FindAverageKey(fa_start, fa_end)
    /\ UNCHANGED <<fa_start, fa_end, avgRest>>

(***************************************************************************)
(*                PART VII  --  TabletIO                                   *)
(*                                                                         *)
(* The parent tablet "t" has number 1; after its split the children "l"    *)
(* and "r" have numbers 2 and 3 and the parent in their lineage.  A write  *)
(* appends an entry to the memtable, Unload dumps the memtable into the    *)
(* files of the tablet's directory, Load opens the files of the directory  *)
(* and of the directories of the lineage, and Read returns the newest      *)
(* entry of the key.                                                       *)
(***************************************************************************)
MaxWrites == 3
TioKeys == {<<1>>, <<128>>, <<255>>}
TioValues == {"A", "B"}
TioObjects == {"t", "l", "r"}
TioNumber(h) == IF h = "t" THEN 1 ELSE IF h = "l" THEN 2 ELSE 3

InRange(key, key_start, key_end) ==
    /\ ~BytesLess(key, key_start)
    /\ (key_end = <<>> \/ BytesLess(key, key_end))

RECURSIVE TioFilter(_, _, _)
TioFilter(entries, key_start, key_end) ==
    IF entries = <<>> THEN <<>>
    ELSE LET rest == TioFilter(Tail(entries), key_start, key_end)
         IN  IF InRange(Head(entries).key, key_start, key_end)
             THEN <<Head(entries)>> \o rest
             ELSE rest

(* The slip: the directories of the lineage are not opened.                *)
TioInherited_None(tb) == <<>>

(* The entries of the parents' files that fall into the tablet's range. *)
TioInherited(tb) ==
    IF tb.parent_tablets = <<>> THEN <<>>
    ELSE TioFilter(tio_files[tb.parent_tablets[1]], tb.key_start, tb.key_end)

(* All entries the tablet sees, oldest first. *)
TioEntries(tb) == TioInherited(tb) \o tio_files[tb.number] \o tb.mem

(* The slip: the oldest entry of the key is returned.                      *)
TioLookup_Oldest(entries, key) ==
    LET idx == {i \in 1..Len(entries) : entries[i].key = key}
    IN  IF idx = {} THEN [ret |-> FALSE, value |-> ""]
        ELSE LET e == entries[CHOOSE i \in idx : \A j \in idx : i <= j]
             IN  [ret |-> ~e.del, value |-> IF e.del THEN "" ELSE e.value]

(* The newest entry of the key; a delete marker hides the key. *)
TioLookup(entries, key) ==
    LET idx == {i \in 1..Len(entries) : entries[i].key = key}
    IN  IF idx = {} THEN [ret |-> FALSE, value |-> ""]
        ELSE LET e == entries[CHOOSE i \in idx : \A j \in idx : j <= i]
             IN  [ret |-> ~e.del, value |-> IF e.del THEN "" ELSE e.value]

TioLoad(h) ==
    /\ tio_tablets[h].status \in {"kNotInit", "kUnloaded"}
    /\ h = "t" => ~tio_split.called
    /\ h # "t" => (tio_split.called /\ tio_split.ret /\ tio_tablets["t"].status = "kUnloaded")
    /\ tio_tablets' = [tio_tablets EXCEPT ![h] =
           IF h = "t" THEN [@ EXCEPT !.status = "kReady"]
           ELSE [@ EXCEPT !.status = "kReady",
                          !.key_start = IF h = "l" THEN tio_tablets["t"].key_start ELSE tio_split.split_key,
                          !.key_end = IF h = "l" THEN tio_split.split_key ELSE tio_tablets["t"].key_end,
                          !.parent_tablets = <<1>>]]
    /\ UNCHANGED <<tio_files, tio_split, tio_read, tio_written, tioRest>>

TioWrite(h, key, del, value) ==
    /\ tio_tablets[h].status = "kReady"
    /\ h = "t"
    /\ InRange(key, tio_tablets[h].key_start, tio_tablets[h].key_end)
    /\ Len(tio_files[1]) + Len(tio_tablets[h].mem) < MaxWrites
    /\ tio_tablets' = [tio_tablets EXCEPT ![h].mem =
                           Append(@, [key |-> key, del |-> del, value |-> value])]
    /\ tio_written' = [tio_written EXCEPT ![key] = IF del THEN "" ELSE value]
    /\ UNCHANGED <<tio_files, tio_split, tio_read, tioRest>>

WriteOne(h, key, value) == TioWrite(h, key, FALSE, value)
WriteDelete(h, key) == TioWrite(h, key, TRUE, "")

TioReadKey(h, key) ==
    /\ tio_tablets[h].status = "kReady"
    /\ tio_read' = [object |-> h, key |-> key] @@ TioLookup(TioEntries(tio_tablets[h]), key)
    /\ UNCHANGED <<tio_files, tio_tablets, tio_split, tio_written, tioRest>>

TioUnload(h) ==
    /\ tio_tablets[h].status = "kReady"
    /\ tio_files' = [tio_files EXCEPT ![TioNumber(h)] = @ \o tio_tablets[h].mem]
    /\ tio_tablets' = [tio_tablets EXCEPT ![h].status = "kUnloaded", ![h].mem = <<>>]
    /\ UNCHANGED <<tio_split, tio_read, tio_written, tioRest>>

(* Split of the parent: the split key is the average key of its range. *)
TioSplit ==
    /\ tio_tablets["t"].status = "kReady"
    /\ ~tio_split.called
    /\ LET r == FindAverageKey(tio_tablets["t"].key_start, tio_tablets["t"].key_end)
       IN  tio_split' = [called |-> TRUE, ret |-> r.ret, split_key |-> r.ave]
    /\ UNCHANGED <<tio_files, tio_tablets, tio_read, tio_written, tioRest>>

(***************************************************************************)
(* The cache of tablet locations over the life of a table: the cookie      *)
(* restored at open, and the tablets of the table as the master splits and *)
(* merges them.                                                            *)
(***************************************************************************)
ThreeTablets ==
    <<TabletMeta(<<>>, <<1>>, "ts2"), TabletMeta(<<1>>, <<3>>, "ts2"),
      TabletMeta(<<3>>, <<>>, "ts2")>>
MergedTablets == <<TabletMeta(<<>>, <<1>>, "ts2"), TabletMeta(<<1>>, <<>>, "ts1")>>
CacheLayouts == {OneTablet, TwoTablets, ThreeTablets, MergedTablets}

(* The master splits, merges or moves tablets: the meta table changes. *)
MetaTableChanges(layout) ==
    /\ ~sdk_aborted
    /\ layout # meta_table
    /\ meta_table' = layout
    /\ answer' = NoAnswer
    /\ UNCHANGED <<async_blocking, clock, sdk_aborted, fails_left, taskVars, flowVars,
                   metaVars, packVars, rpcs, delay_tasks, stale_sent, openVars, gcVars,
                   offVars>>

(* RestoreCookie: every tablet of the cookie becomes a NORMAL node under   *)
(* its start key.                                                          *)
RECURSIVE RestoreCookie(_, _)
RestoreCookie(list, tablets) ==
    IF tablets = <<>> THEN list
    ELSE RestoreCookie(
             MapPut(list, Head(tablets).key_start,
                    NewNode(Head(tablets).key_start, Head(tablets).key_end,
                            Head(tablets).server_addr, "NORMAL", 0)),
             Tail(tablets))

(* The cookies: dumps of the cache of an earlier run of the client. *)
Cookies ==
    {<<>>, OneTablet, TwoTablets, <<TabletMeta(<<1>>, <<3>>, "ts2")>>,
     <<TabletMeta(<<>>, <<1>>, "ts2"), TabletMeta(<<3>>, <<>>, "ts2")>>}

(* CHECK_GT(node.meta.key_range().key_start(), update_end_key) for each    *)
(* node and the end of the node before it.                                 *)
CheckGtHolds(list) ==
    \A a, b \in DOMAIN list :
        (KeyLess(a, b) /\ ~\E c \in DOMAIN list : KeyLess(a, c) /\ KeyLess(c, b))
            => (list[b].key_start = list[a].key_end
                   \/ KeyLess(list[a].key_end, list[b].key_start))

(***************************************************************************)
(* The idle state of each part, and the specifications.                    *)
(***************************************************************************)
IdleGc ==
    /\ strategy = "batch"
    /\ now = 0
    /\ tstate = [t \in Tablets |-> "unborn"]
    /\ tserver = [t \in Tablets |-> "ts1"]
    /\ inh = [t \in Tablets |-> {}]
    /\ tdirs = {}
    /\ lgdirs = {}
    /\ disk = {}
    /\ deleted = {}
    /\ gc_crashed = FALSE
    /\ gc_tablets_ = NoTable
    /\ gc_live_files_ = NoTable
    /\ dead_tablet_files_ = NoFiles
    /\ live_tablet_files_ = NoFiles

(* A TableImpl right after OpenInternal, with an empty meta cache.         *)
ColdTasks ==
    /\ task = [id \in TaskIds |-> NoTask]
    /\ next_task_id_ = 0
    /\ task_pool_ = {}
    /\ blocked = {}
    /\ cur_commit_pending_counter_ = 0
    /\ cur_reader_pending_counter_ = 0
    /\ pending_task_id_list_ = EmptyMap
    /\ meta_updating_count_ = 0
    /\ meta_scans = {}
    /\ mutation_batch_map_ = EmptyMap
    /\ reader_batch_map_ = EmptyMap
    /\ mutation_batch_seq_ = 0
    /\ reader_batch_seq_ = 0
    /\ rpcs = {}
    /\ delay_tasks = {}
    /\ stale_sent = {}
    /\ answer = NoAnswer

ColdCache == tablet_meta_list_ = EmptyMap
IdleOpen ==
    /\ meta_callers = 0
    /\ table_meta_updating_ = FALSE
    /\ ret_err = "kOK"
    /\ table_reads = {}
KnownRoot ==
    /\ root_table_addr = RootAddr
    /\ root_empty_count = 0
ColdSdk ==
    /\ ColdCache
    /\ ColdTasks
    /\ KnownRoot
    /\ IdleOpen

IdleSdk ==
    /\ clock = 0
    /\ sdk_aborted = FALSE
    /\ meta_table = OneTablet
    /\ fails_left = 0
    /\ ColdSdk

IdleLookup ==
    /\ lk_key = <<>>
    /\ lk_result = <<>>

IdleTablet ==
    /\ tablet_status = "kTableNotInit"
    /\ tablet_addr = ""
    /\ tablet_call = NoCall

IdleLock ==
    /\ gc_mutex_ = ""
    /\ gc_pc = [th \in GcThreads |-> ""]

NoStore ==
    [nodes |-> {}, root_value |-> "", watches |-> {}, events |-> <<>>, session |-> "none",
     ops |-> 0, last_event |-> NoEvent]
NewNodeProcess(impl) ==
    [impl |-> impl, pc |-> "start", status |-> "kNotInited", registered |-> FALSE,
     exited |-> FALSE, safe_mode |-> FALSE, root_tablet_addr |-> "", log |-> ""]
IdleCoord ==
    /\ zk = NoStore
    /\ ts_node = NewNodeProcess("zk")

NoMasterTable == [exists |-> FALSE, status |-> "kTableDisable", schema |-> [lgs |-> 0, cfs |-> 0, props |-> 0]]
IdleClient ==
    /\ online_schema_update_enabled = FALSE
    /\ master_table = NoMasterTable
    /\ update_call = NoUpdateCall

NoAverage == [called |-> FALSE, ret |-> FALSE, ave |-> <<>>]
IdleAvg ==
    /\ fa_start = <<>>
    /\ fa_end = <<>>
    /\ fa_out = NoAverage

NewTabletIO(h, key_start, key_end) ==
    [status |-> "kNotInit", key_start |-> key_start, key_end |-> key_end,
     number |-> TioNumber(h), parent_tablets |-> <<>>, mem |-> <<>>]
NoRead == [object |-> "", key |-> <<>>, ret |-> FALSE, value |-> ""]
NoSplit == [called |-> FALSE, ret |-> FALSE, split_key |-> <<>>]
IdleTio ==
    /\ tio_files = [n \in 1..3 |-> <<>>]
    /\ tio_tablets = [h \in TioObjects |-> NewTabletIO(h, <<>>, <<>>)]
    /\ tio_split = NoSplit
    /\ tio_read = NoRead
    /\ tio_written = [k \in TioKeys |-> ""]

IdleMore ==
    /\ IdleLock
    /\ IdleCoord
    /\ IdleClient
    /\ IdleAvg
    /\ IdleTio

InitGc ==
    /\ strategy \in {"batch", "incr"}
    /\ now = 0
    /\ tstate = [t \in Tablets |-> IF t = 1 THEN "dead" ELSE IF t = 2 THEN "ready" ELSE "unborn"]
    /\ tserver = [t \in Tablets |-> "ts1"]
    /\ inh = [t \in Tablets |-> IF t = 2 THEN OwnFiles(1) ELSE {}]
    /\ tdirs = {1, 2}
    /\ lgdirs = {1} \X Lgs
    /\ disk = OwnFiles(1)
    /\ deleted = {}
    /\ gc_crashed = FALSE
    /\ gc_tablets_ = NoTable
    /\ gc_live_files_ = NoTable
    /\ dead_tablet_files_ = NoFiles
    /\ live_tablet_files_ = NoFiles
    /\ async_blocking = FALSE
    /\ IdleSdk
    /\ IdleLookup
    /\ IdleTablet
    /\ IdleMore

NextGc ==
    \/ Tick
    \/ \E t \in Tablets, f \in Files : CompactTablet(t, f)
    \/ \E t \in Tablets, s \in Servers : SplitTablet(t, s)
    \/ \E t \in Tablets : LoadTablet(t)
    \/ BatchPreQuery
    \/ \E s \in Servers : BatchProcessQueryCallbackForGc(s)
    \/ BatchPostQuery
    \/ IncPreQuery
    \/ \E s \in Servers : IncProcessQueryCallbackForGc(s)
    \/ IncPostQuery
    \/ IncClear

SpecGc == InitGc /\ [][NextGc]_vars

(* C1: no file that a live tablet still inherits has been passed to        *)
(* DeleteFile, under either strategy and every order of PreQuery,          *)
(* ProcessQueryCallbackForGc and PostQuery.                                *)
C1_NoLiveFileDeleted ==
    \A t \in Live : inh[t] \cap deleted = {}

(* The GC has deleted a file of a dead tablet while a live tablet still    *)
(* claims another file of the same tablet. *)
C1_Witness ==
    \E f \in deleted : \E t \in Live : \E g \in inh[t] : g[1] = f[1]

IncQualifies(t) ==
    \A u \in DOMAIN live_tablet_files_.tablets :
        dead_tablet_files_.tablets[t].dead_time < live_tablet_files_.tablets[u]
IncGarbage(t, lg) ==
    {f \in Files :
        /\ f[1] = t /\ f[2] = lg
        /\ FullNumber(f) \in dead_tablet_files_.tablets[t].files[lg].storage
        /\ FullNumber(f) \notin dead_tablet_files_.tablets[t].files[lg].live}
IncHeldLgs(t) ==
    {lg \in DOMAIN dead_tablet_files_.tablets[t].files :
        dead_tablet_files_.tablets[t].files[lg].storage
            \cap dead_tablet_files_.tablets[t].files[lg].live # {}}
(* A step of DeleteTableFiles that changes dead_tablet_files_: no tablet   *)
(* is added (PreQuery) and no live file is added (ProcessQueryCallbackForGc). *)
IncRoundStep ==
    /\ strategy = "incr"
    /\ dead_tablet_files_.present /\ dead_tablet_files_'.present
    /\ dead_tablet_files_' # dead_tablet_files_
    /\ \A t \in DOMAIN dead_tablet_files_'.tablets :
           /\ t \in DOMAIN dead_tablet_files_.tablets
           /\ \A lg \in DOMAIN dead_tablet_files_'.tablets[t].files :
                  dead_tablet_files_'.tablets[t].files[lg].live
                      \subseteq dead_tablet_files_.tablets[t].files[lg].live

(* C18: the incremental GC deletes a file only when it is a storage file,  *)
(* and not a live file, of an lg of a dead tablet whose dead_time_ is less *)
(* than the ready_time_ of every live tablet; DeleteTableFiles deletes all *)
(* such files, drops the lg entries left without storage files and the     *)
(* tablets left without lg entries, and leaves the other tablets as they   *)
(* were.                                                                   *)
C18_IncDeletesGarbageOnly ==
    [][strategy = "incr" =>
          /\ \A f \in deleted' \ deleted :
                 /\ f[1] \in DOMAIN dead_tablet_files_.tablets
                 /\ IncQualifies(f[1])
                 /\ f[2] \in DOMAIN dead_tablet_files_.tablets[f[1]].files
                 /\ f \in IncGarbage(f[1], f[2])
          /\ IncRoundStep =>
                 \A t \in DOMAIN dead_tablet_files_.tablets :
                     IF IncQualifies(t)
                     THEN /\ \A lg \in DOMAIN dead_tablet_files_.tablets[t].files :
                                 /\ IncGarbage(t, lg) \subseteq deleted'
                                 /\ IncGarbage(t, lg) \cap disk' = {}
                          /\ IF IncHeldLgs(t) = {}
                             THEN t \notin DOMAIN dead_tablet_files_'.tablets
                             ELSE /\ t \in DOMAIN dead_tablet_files_'.tablets
                                  /\ DOMAIN dead_tablet_files_'.tablets[t].files
                                         = IncHeldLgs(t)
                                  /\ \A lg \in IncHeldLgs(t) :
                                         dead_tablet_files_'.tablets[t].files[lg].storage
                                             = dead_tablet_files_.tablets[t].files[lg].storage
                                                 \cap dead_tablet_files_.tablets[t].files[lg].live
                     ELSE /\ t \in DOMAIN dead_tablet_files_'.tablets
                          /\ dead_tablet_files_'.tablets[t] = dead_tablet_files_.tablets[t]]_vars

(* The incremental GC has deleted a file of a dead tablet and dropped its  *)
(* lg, and still tracks another lg of the tablet.                          *)
C18_Witness ==
    /\ strategy = "incr"
    /\ \E t \in DOMAIN dead_tablet_files_.tablets :
           /\ dead_tablet_files_.tablets[t].files # <<>>
           /\ \E f \in deleted :
                  f[1] = t /\ f[2] \notin DOMAIN dead_tablet_files_.tablets[t].files
IncFresh(t) ==
    /\ dead_tablet_files_'.tablets[t].dead_time = now
    /\ \A lg \in DOMAIN dead_tablet_files_'.tablets[t].files :
           dead_tablet_files_'.tablets[t].files[lg].live = {}

(* C19 as stated: after a round of DeleteTableFiles every dead tablet      *)
(* still tracked has empty live_files_ and dead_time_ = the current time.  *)
C19_EveryDeadTabletReset ==
    [][IncRoundStep => \A t \in DOMAIN dead_tablet_files_'.tablets : IncFresh(t)]_vars

(* C19: after a round of DeleteTableFiles every tracked dead tablet that   *)
(* qualified in the round (dead_time_ < every ready_time_) has empty       *)
(* live_files_ and dead_time_ = the current time, and a tablet that did    *)
(* not qualify keeps its dead_time_ and its live_files_; a file of a       *)
(* tablet is deleted only when every tracked live tablet has a ready_time_ *)
(* greater than the dead_time_ of the tablet and the file is not among the *)
(* live files recorded since that reset.                                   *)
C19_QualifiedTabletsReset ==
    [][strategy = "incr" =>
          /\ IncRoundStep =>
                 \A t \in DOMAIN dead_tablet_files_'.tablets :
                     IF IncQualifies(t) THEN IncFresh(t)
                     ELSE /\ dead_tablet_files_'.tablets[t].dead_time
                                 = dead_tablet_files_.tablets[t].dead_time
                          /\ \A lg \in DOMAIN dead_tablet_files_'.tablets[t].files :
                                 dead_tablet_files_'.tablets[t].files[lg].live
                                     = dead_tablet_files_.tablets[t].files[lg].live
          /\ \A f \in deleted' \ deleted :
                 /\ \A u \in DOMAIN live_tablet_files_.tablets :
                        live_tablet_files_.tablets[u]
                            > dead_tablet_files_.tablets[f[1]].dead_time
                 /\ FullNumber(f) \notin dead_tablet_files_.tablets[f[1]].files[f[2]].live]_vars

(* After a round that deleted a file of a dead tablet: the tablet is still *)
(* tracked with empty live_files_ and the current time as dead_time_,      *)
(* while another dead tablet keeps the live files recorded for it.         *)
C19_Witness ==
    /\ strategy = "incr"
    /\ now > 0
    /\ \E t, u \in DOMAIN dead_tablet_files_.tablets :
           /\ \E f \in deleted : f[1] = t
           /\ dead_tablet_files_.tablets[t].dead_time = now
           /\ dead_tablet_files_.tablets[t].files # <<>>
           /\ \A lg \in DOMAIN dead_tablet_files_.tablets[t].files :
                  dead_tablet_files_.tablets[t].files[lg].live = {}
           /\ \E lg \in DOMAIN dead_tablet_files_.tablets[u].files :
                  dead_tablet_files_.tablets[u].files[lg].live # {}
(* The master runs a round as PreQuery, the queries of all servers, then   *)
(* PostQuery, and time goes on: the answer that completes a round and the  *)
(* PostQuery that deletes are not put off for ever.                        *)
BatchLastCallback(s) ==
    /\ BatchProcessQueryCallbackForGc(s)
    /\ gc_tablets_'.present /\ gc_tablets_'.first = {}
IncLastCallback(s) ==
    /\ IncProcessQueryCallbackForGc(s)
    /\ \A u \in DOMAIN live_tablet_files_'.tablets : live_tablet_files_'.tablets[u] = now
GcFairness ==
    /\ WF_vars(Tick)
    /\ WF_vars(BatchPreQuery)
    /\ \A s \in Servers : SF_vars(BatchProcessQueryCallbackForGc(s))
    /\ \A s \in Servers : SF_vars(BatchLastCallback(s))
    /\ SF_vars(BatchPostQuery)
    /\ WF_vars(IncPreQuery)
    /\ \A s \in Servers : SF_vars(IncProcessQueryCallbackForGc(s))
    /\ \A s \in Servers : SF_vars(IncLastCallback(s))
    /\ SF_vars(IncPostQuery)

(* The rounds of a table that is not dropped (Clear is not called), from   *)
(* the time its tablet 2 has split into 3 and 4 and these are loaded, on   *)
(* one server or on two, and have compacted the files of tablet 2: only    *)
(* compactions go on.                                                      *)
InitRounds ==
    /\ strategy \in {"batch", "incr"}
    /\ now = 0
    /\ tstate = [t \in Tablets |-> IF t \in {1, 2} THEN "dead" ELSE "ready"]
    /\ tserver \in {[t \in Tablets |-> IF t = 4 THEN s ELSE "ts1"] : s \in Servers}
    /\ inh = [t \in Tablets |-> IF t \in {3, 4} THEN OwnFiles(1) ELSE {}]
    /\ tdirs = Tablets
    /\ lgdirs = {1, 2} \X Lgs
    /\ disk = OwnFiles(1) \cup OwnFiles(2)
    /\ deleted = {}
    /\ gc_crashed = FALSE
    /\ gc_tablets_ = NoTable
    /\ gc_live_files_ = NoTable
    /\ dead_tablet_files_ = NoFiles
    /\ live_tablet_files_ = NoFiles
    /\ async_blocking = FALSE
    /\ IdleSdk
    /\ IdleLookup
    /\ IdleTablet
    /\ IdleMore

NextRounds ==
    \/ Tick
    \/ \E t \in Tablets, f \in Files : CompactTablet(t, f)
    \/ BatchPreQuery
    \/ \E s \in Servers : BatchProcessQueryCallbackForGc(s)
    \/ BatchPostQuery
    \/ IncPreQuery
    \/ \E s \in Servers : IncProcessQueryCallbackForGc(s)
    \/ IncPostQuery

FairGc == InitRounds /\ [][NextRounds]_vars /\ GcFairness

(* The files on disk that no strategy may keep for ever: files of a dead   *)
(* tablet that no live tablet inherits.  MaxTime is the last second of the *)
(* exploration: a dead tablet with dead_time_ = MaxTime cannot qualify any *)
(* more in it.                                                             *)
Garbage == {f \in disk : tstate[f[1]] = "dead" /\ \A t \in Live : f \notin inh[t]}
AtHorizon(t) ==
    /\ strategy = "incr"
    /\ t \in DOMAIN dead_tablet_files_.tablets
    /\ dead_tablet_files_.tablets[t].dead_time = MaxTime

InitSdk ==
    /\ IdleGc
    /\ IdleLookup
    /\ IdleTablet
    /\ IdleMore
    /\ async_blocking \in BOOLEAN
    /\ clock = 0
    /\ sdk_aborted = FALSE
    /\ meta_table = OneTablet
    /\ fails_left = MaxFail
    /\ ColdSdk

UserWrites == \E row \in Rows, is_async \in BOOLEAN : ApplyMutation(row, is_async)
UserReads == \E row \in Rows, is_async \in BOOLEAN : Get(row, is_async)
UserScans == \E row \in ScanRows : Scan(row)

WriteSteps ==
    \/ \E rpc \in rpcs : \E resp \in Responses(rpc, WriteRowCodes) :
           WriteTabletDone(rpc, resp)
    \/ \E id \in TaskIds : MutationExpires(id)
    \/ \E d \in delay_tasks : RunDistributeMutationsById(d)
    \/ \E d \in delay_tasks : RunMutationBatchTimeout(d)

ReadSteps ==
    \/ \E rpc \in rpcs : \E resp \in Responses(rpc, ReadRowCodes) :
           ReadTabletDone(rpc, resp)
    \/ \E id \in TaskIds : ReaderExpires(id)
    \/ \E d \in delay_tasks : RunDistributeReadersById(d)
    \/ \E d \in delay_tasks : RunReaderBatchTimeout(d)

ScanSteps ==
    \/ \E rpc \in rpcs : \E err \in StatusCodes : ScanTabletDone(rpc, err)
    \/ \E d \in delay_tasks : RunScanTabletAsync(d)

MetaSteps ==
    \/ \E d \in delay_tasks : RunDelayUpdateMeta(d)
    \/ \E d \in delay_tasks : RunScanMetaTableAsyncInLock(d)
    \/ \E scan \in meta_scans : \E resp \in MetaResponses(scan) :
           ScanMetaTableDone(scan, resp)

NextSdk ==
    \/ Tock
    \/ UserWrites
    \/ UserReads
    \/ UserScans
    \/ \E id \in TaskIds : WakeMutationCaller(id)
    \/ \E id \in TaskIds : WakeReaderCaller(id)
    \/ \E d \in delay_tasks : RunBreakRequest(d)
    \/ WriteSteps
    \/ ReadSteps
    \/ ScanSteps
    \/ MetaSteps

SpecSdk == InitSdk /\ [][NextSdk]_vars

UserTasks == {id \in TaskIds : task[id].type \in {"MUTATION", "READ"}}
Waiting(id) ==
    \/ \E row \in DOMAIN pending_task_id_list_ : id \in SeqSet(pending_task_id_list_[row])
    \/ \E a \in DOMAIN mutation_batch_map_ : id \in SeqSet(mutation_batch_map_[a].row_id_list)
    \/ \E a \in DOMAIN reader_batch_map_ : id \in SeqSet(reader_batch_map_[a].row_id_list)
Retrying(id) ==
    \E d \in delay_tasks :
        \/ d.type \in {"DistributeMutationsById", "DistributeReadersById"}
           /\ id \in SeqSet(d.ids)
        \/ d.type = "ScanTabletAsync" /\ d.id = id
InFlight(id) == \E rpc \in rpcs : id \in SeqSet(rpc.ids)

(* C3: a mutation or a reader is in the task pool until its callback has   *)
(* run, and the callback has run exactly once when it is out of the pool:  *)
(* never twice, never skipped.                                             *)
C3_CallbackExactlyOnce ==
    \A id \in UserTasks :
        IF id \in task_pool_ THEN task[id].callbacks = 0 ELSE task[id].callbacks = 1

(* One request was turned away by the flow control and got its callback    *)
(* from BreakRequest, the other was retried and then timed out.            *)
C3_Witness ==
    \E a, b \in UserTasks :
        /\ task[a].error = "kBusy" /\ task[a].callbacks = 1
        /\ task[b].error = "kSystem" /\ task[b].callbacks = 1

(* C6: no batch that waits in mutation_batch_map_ has reached the maximum  *)
(* RPC size or commit_size_ rows, or holds a synchronous mutation.         *)
C6_NoFullOrSyncBatchWaits ==
    \A a \in DOMAIN mutation_batch_map_ :
        LET batch == mutation_batch_map_[a]
        IN  /\ batch.byte_size < kMaxRpcSize
            /\ Len(batch.row_id_list) < commit_size_
            /\ \A id \in SeqSet(batch.row_id_list) \cap task_pool_ : task[id].is_async

Rejected(id) == BreakTask(id) \in delay_tasks
Admitted(type) == {id \in task_pool_ : task[id].type = type /\ ~Rejected(id)}

(* C7: a request is turned away only when it is asynchronous and blocking  *)
(* is disabled; it then stays unsent with kBusy until BreakRequest runs    *)
(* its callback, and the counters count exactly the requests that were let *)
(* in and are not finished; a caller blocks only when blocking is enabled. *)
C7_FlowControl ==
    /\ cur_commit_pending_counter_ = Cardinality(Admitted("MUTATION"))
    /\ cur_reader_pending_counter_ = Cardinality(Admitted("READ"))
    /\ \A id \in TaskIds :
           Rejected(id) =>
               /\ ~async_blocking
               /\ id \in task_pool_ /\ task[id].is_async /\ task[id].error = "kBusy"
               /\ ~Waiting(id) /\ ~InFlight(id)
    /\ \A id \in blocked : async_blocking

Leaves(id) == id \in task_pool_ /\ id \notin task_pool_'
Expires(id) ==
    /\ Leaves(id)
    /\ answer' = NoAnswer
    /\ Rejected(id) => Rejected(id)'

(* C8 as amended: the task whose deadline passes leaves the pool and gets  *)
(* its callback with kTimeout when it was never retried and with kSystem   *)
(* when it was; the text has the commit count and, for a retried task, the *)
(* retry count and the last internal error.                                *)
C8_ExpiryError ==
    [][\A id \in TaskIds :
           Expires(id) =>
               /\ task'[id].callbacks = 1
               /\ task'[id].error =
                      IF task[id].retry_times = 0 THEN "kTimeout" ELSE "kSystem"
               /\ task'[id].err_reason.commit_times = task[id].commit_times
               /\ task'[id].err_reason.retry_times = task[id].retry_times
               /\ task[id].retry_times > 0 =>
                      task'[id].err_reason.last_error = task[id].internal_err]_vars

(* C8 as claimed: every expired task gets its callback with kTimeout, and  *)
(* the text has the commit count and the last internal error.              *)
C8_AlwaysTimeout ==
    [][\A id \in TaskIds :
           Expires(id) =>
               /\ task'[id].callbacks = 1
               /\ task'[id].error = "kTimeout"
               /\ task'[id].err_reason.commit_times = task[id].commit_times
               /\ task[id].retry_times > 0 =>
                      task'[id].err_reason.last_error = task[id].internal_err]_vars

(* A task that was committed twice and retried once has expired.           *)
C8_Witness ==
    \E id \in UserTasks :
        /\ task[id].callbacks = 1
        /\ task[id].err_reason =
               [commit_times |-> 2, retry_times |-> 1, last_error |-> "kTabletNodeIsBusy"]

TerminalCodes(kind) ==
    IF kind = "write" THEN {"kTabletNodeOk", "kTxnFail"}
    ELSE IF kind = "read" THEN {"kTabletNodeOk", "kKeyNotExist", "kSnapshotNotExist"}
    ELSE {"kTabletNodeOk", "kSnapshotNotExist"}
ResultErrors == {"kTxnFail", "kNotFound"}
Finished(id) ==
    /\ task[id].type # "NONE"
    /\ task[id].callbacks = 1
    /\ task[id].error \notin {"kBusy", "kTimeout", "kSystem"}

(* C9: after an RPC callback every row of the answer whose result is       *)
(* kTabletNodeOk or a terminal error is out of the task pool with its      *)
(* callback run, and a row finished by its result is nowhere dispatched    *)
(* again: not pending, not in a batch, not in a retry task, not in an RPC. *)
C9_TerminalRowsFinish ==
    /\ \A i \in 1..Len(answer.ids) :
           answer.codes[i] \in TerminalCodes(answer.kind) =>
               /\ answer.ids[i] \notin task_pool_
               /\ task[answer.ids[i]].callbacks = 1
    /\ \A id \in TaskIds :
           Finished(id) => ~Waiting(id) /\ ~Retrying(id) /\ ~InFlight(id)

(* A read answered with kKeyNotExist has finished with kNotFound, and      *)
(* another request is still in flight.                                     *)
C9_Witness ==
    /\ answer.kind = "read"
    /\ \E i \in 1..Len(answer.ids) :
           /\ answer.codes[i] = "kKeyNotExist"
           /\ task[answer.ids[i]].error = "kNotFound"
    /\ \E id \in task_pool_ : InFlight(id)

AnsweredRows == {i \in 1..Len(answer'.ids) : answer'.ids[i] \in task_pool_}
SameOutcome(id) ==
    /\ task'[id].error = task[id].error
    /\ task'[id].callbacks = task[id].callbacks
    /\ (id \in task_pool_') = (id \in task_pool_)

(* C11: in the callback of a write or read RPC every row that is still in  *)
(* the pool is handled by its own status: a row with kTabletNodeOk leaves  *)
(* the pool and gets its callback with kOK whatever the status of the      *)
(* other rows is, a row with an error status stays in the pool for its     *)
(* retry with that error as its internal error, and no task outside the    *)
(* answer changes its outcome.                                             *)
C11_RowsByOwnStatus ==
    [][answer'.kind \in {"write", "read"} =>
           /\ \A i \in AnsweredRows :
                  LET id == answer'.ids[i]
                      err == answer'.codes[i]
                  IN  /\ err = "kTabletNodeOk" =>
                             /\ id \notin task_pool_'
                             /\ task'[id].callbacks = 1
                             /\ task'[id].error = "kOK"
                      /\ err \in RetryCodes =>
                             /\ id \in task_pool_'
                             /\ task'[id].callbacks = 0
                             /\ task'[id].internal_err = err
                             /\ task'[id].retry_times = task[id].retry_times + 1
           /\ \A id \in TaskIds \ SeqSet(answer'.ids) : SameOutcome(id)]_vars

(* One answer with a row that is done with kOK and a row that failed and   *)
(* is kept for its retry.                                                  *)
C11_Witness ==
    /\ answer.kind = "write"
    /\ \E i, j \in 1..Len(answer.ids) :
           /\ answer.codes[i] = "kTabletNodeOk"
           /\ task[answer.ids[i]].error = "kOK" /\ task[answer.ids[i]].callbacks = 1
           /\ answer.codes[j] = "kTabletNodeIsBusy"
           /\ answer.ids[j] \in task_pool_ /\ task[answer.ids[j]].retry_times = 1

(* Mutations and scans while the master splits the table, without the      *)
(* blocking flow control.                                                  *)
InitSplit ==
    /\ IdleGc
    /\ IdleLookup
    /\ IdleTablet
    /\ IdleMore
    /\ async_blocking = FALSE
    /\ clock = 0
    /\ sdk_aborted = FALSE
    /\ meta_table = OneTablet
    /\ fails_left = MaxFail
    /\ ColdSdk

NextSplit ==
    \/ Tock
    \/ SplitTable
    \/ UserWrites
    \/ UserScans
    \/ \E d \in delay_tasks : RunBreakRequest(d)
    \/ WriteSteps
    \/ ScanSteps
    \/ MetaSteps

SpecSplit == InitSplit /\ [][NextSplit]_vars

(* C2: once an RPC has come back with kKeyNotInRange, no request is given  *)
(* the server address of the cache entry that RPC had used, until a meta   *)
(* scan has replaced the entry.                                            *)
C2_NoRequestOnFaultedEntry == stale_sent = {}

Redispatched(id) ==
    /\ id \in task_pool_
    /\ \/ \E d \in delay_tasks \ delay_tasks' :
              \/ /\ d.type \in {"DistributeMutationsById", "DistributeReadersById"}
                 /\ id \in SeqSet(d.ids)
              \/ d.type = "ScanTabletAsync" /\ d.id = id
       \/ /\ answer'.kind \in {"write", "read"}
          /\ \E i \in 1..Len(answer'.ids) :
                 answer'.ids[i] = id /\ answer'.codes[i] = "kKeyNotInRange"
LastError(id) ==
    IF id \in SeqSet(answer'.ids)
    THEN answer'.codes[CHOOSE i \in 1..Len(answer'.ids) : answer'.ids[i] = id]
    ELSE task[id].internal_err
CoverNode(id) == GetTabletMetaNodeForKey(tablet_meta_list_, task[id].row)
Compared(id, k) ==
    /\ Redispatched(id) \/ Expires(id)
    /\ LastError(id) \in {"kKeyNotInRange", "kConnectError"}
    /\ CoverNode(id).found /\ CoverNode(id).start = k
    /\ tablet_meta_list_[k].status = "NORMAL"
NotOlder(id, k) == task[id].meta_timestamp >= tablet_meta_list_[k].update_time
SentTo(id, server_addr) ==
    \/ /\ server_addr \in DOMAIN mutation_batch_map_
       /\ id \in SeqSet(mutation_batch_map_[server_addr].row_id_list)
    \/ /\ server_addr \in DOMAIN reader_batch_map_
       /\ id \in SeqSet(reader_batch_map_[server_addr].row_id_list)
    \/ \E rpc \in rpcs : rpc.server_addr = server_addr /\ id \in SeqSet(rpc.ids)

(* C12: when tasks whose last RPC failed with kKeyNotInRange or a connect  *)
(* error are distributed again or time out, and the node that covers their *)
(* row is NORMAL: if one of them has a meta timestamp >= the update_time   *)
(* of the node, the node is no longer NORMAL afterwards (DELAY_UPDATE, or  *)
(* WAIT_UPDATE, or UPDATING when UpdateMetaAsync started the scan at once); *)
(* if all of them are older, the node stays NORMAL and those distributed   *)
(* again go to the server of the node with its update_time as timestamp.   *)
C12_RefetchIfNotOlder ==
    [][\A k \in DOMAIN tablet_meta_list_ :
           LET on == {id \in TaskIds : Compared(id, k)}
               node == tablet_meta_list_[k]
           IN  on # {} =>
                   /\ k \in DOMAIN tablet_meta_list_'
                   /\ IF \E id \in on : NotOlder(id, k)
                      THEN tablet_meta_list_'[k].status \in
                               {"WAIT_UPDATE", "DELAY_UPDATE", "UPDATING"}
                      ELSE /\ tablet_meta_list_'[k].status = "NORMAL"
                           /\ tablet_meta_list_'[k].update_time = node.update_time
                           /\ \A id \in on :
                                  Redispatched(id) =>
                                      /\ SentTo(id, node.server_addr)'
                                      /\ task'[id].meta_timestamp = node.update_time]_vars

(* A task that failed with kKeyNotInRange waits for the meta of its row    *)
(* while the node that had given it the address is fetched again.          *)
C12_Witness ==
    \E id \in task_pool_ :
        /\ task[id].internal_err = "kKeyNotInRange"
        /\ \E row \in DOMAIN pending_task_id_list_ :
               id \in SeqSet(pending_task_id_list_[row])
        /\ CoverNode(id).found
        /\ tablet_meta_list_[CoverNode(id).start].status \in
               {"WAIT_UPDATE", "DELAY_UPDATE", "UPDATING"}
        /\ NotOlder(id, CoverNode(id).start)

SameNode(k) ==
    /\ k \in DOMAIN tablet_meta_list_ /\ k \in DOMAIN tablet_meta_list_'
    /\ tablet_meta_list_'[k].update_time = tablet_meta_list_[k].update_time
    /\ tablet_meta_list_'[k].server_addr = tablet_meta_list_[k].server_addr
Fetching == {"WAIT_UPDATE", "UPDATING"}
FetchTime(k) == tablet_meta_list_[k].update_time + tera_sdk_update_meta_internal
DelayTaskOf(k) ==
    {d \in delay_tasks : /\ d.type = "DelayUpdateMeta"
                         /\ d.start_key = k
                         /\ d.end_key = tablet_meta_list_[k].key_end}

(* C13: a node that was fetched is marked for the next fetch (WAIT_UPDATE, *)
(* or UPDATING when the scan starts at once) no sooner than                *)
(* tera_sdk_update_meta_internal ms after its update_time; a fault that    *)
(* comes earlier makes it DELAY_UPDATE with a DelayUpdateMeta task due at   *)
(* that time, and a DELAY_UPDATE node is marked only by a DelayUpdateMeta   *)
(* task that fires.                                                        *)
C13_NoEarlyRefetch ==
    [][\A k \in DOMAIN tablet_meta_list_ :
           LET node == tablet_meta_list_[k]
           IN  SameNode(k) =>
                   /\ /\ node.status \in {"NORMAL", "DELAY_UPDATE"}
                      /\ tablet_meta_list_'[k].status \in Fetching
                      => clock >= FetchTime(k)
                   /\ /\ node.status = "NORMAL"
                      /\ tablet_meta_list_'[k].status = "DELAY_UPDATE"
                      => /\ clock < FetchTime(k)
                         /\ \E d \in DelayTaskOf(k)' : d.due = FetchTime(k)
                   /\ /\ node.status = "DELAY_UPDATE"
                      /\ tablet_meta_list_'[k].status \in Fetching
                      => \E d \in delay_tasks \ delay_tasks' :
                             d.type = "DelayUpdateMeta" /\ d.due >= FetchTime(k)]_vars

(* Mutations that fail up to MaxRetryFail times while the master splits    *)
(* the table, over MaxClock milliseconds.                                  *)
InitRetry ==
    /\ IdleGc
    /\ IdleLookup
    /\ IdleTablet
    /\ IdleMore
    /\ async_blocking = FALSE
    /\ clock = 0
    /\ sdk_aborted = FALSE
    /\ meta_table = OneTablet
    /\ fails_left = MaxRetryFail
    /\ ColdSdk

NextRetry ==
    \/ Tock
    \/ SplitTable
    \/ UserWrites
    \/ \E d \in delay_tasks : RunBreakRequest(d)
    \/ WriteSteps
    \/ MetaSteps

SpecRetry == InitRetry /\ [][NextRetry]_vars

(* Callers of ScanMetaTable beside the scans of UpdateMetaAsync, on a      *)
(* table that is not split.                                                *)
InitMeta ==
    /\ IdleGc
    /\ IdleLookup
    /\ IdleTablet
    /\ IdleMore
    /\ async_blocking = FALSE
    /\ clock = 0
    /\ sdk_aborted = FALSE
    /\ meta_table = OneTablet
    /\ fails_left = MaxFail
    /\ ColdSdk

NextMeta ==
    \/ Tock
    \/ UserWrites
    \/ \E d \in delay_tasks : RunBreakRequest(d)
    \/ WriteSteps
    \/ MetaSteps
    \/ \E r \in MetaCallRanges : ScanMetaTable(r[1], r[2])
    \/ ScanMetaTableReturns

SpecMeta == InitMeta /\ [][NextMeta]_vars

(* C14: meta_updating_count_ never exceeds                                 *)
(* tera_sdk_update_meta_concurrency, whatever the order of the calls of    *)
(* UpdateMetaAsync and ScanMetaTable and of the answers of the meta table. *)
C14_ScansWithinConcurrency == meta_updating_count_ <= tera_sdk_update_meta_concurrency

(* A client that opens the table and writes while the address of the root  *)
(* tablet comes and goes.                                                  *)
InitRoot ==
    /\ IdleGc
    /\ IdleLookup
    /\ IdleTablet
    /\ IdleMore
    /\ async_blocking = FALSE
    /\ clock = 0
    /\ sdk_aborted = FALSE
    /\ meta_table = OneTablet
    /\ fails_left = 0
    /\ ColdCache
    /\ ColdTasks
    /\ root_table_addr \in {"", RootAddr}
    /\ root_empty_count = 0
    /\ IdleOpen

NextRoot ==
    \/ RootChanges
    \/ UserWrites
    \/ \E rpc \in rpcs : \E resp \in Responses(rpc, WriteRowCodes) :
           WriteTabletDone(rpc, resp)
    \/ \E d \in delay_tasks : RunMutationBatchTimeout(d)
    \/ \E d \in delay_tasks : RunScanMetaTableAsyncInLock(d)
    \/ \E scan \in meta_scans : \E resp \in MetaResponses(scan) :
           ScanMetaTableDone(scan, resp)
    \/ UpdateTableMeta
    \/ \E d \in delay_tasks : RunReadTableMetaAsync(d)
    \/ \E rd \in table_reads, err \in TableMetaCodes : ReadTableMetaDone(rd, err)

SpecRoot == InitRoot /\ [][NextRoot]_vars

(* C17: while the address of the root tablet stays empty, neither the read *)
(* of the table meta nor the scan of the meta table is tried again more    *)
(* than tera_sdk_retry_times times after its first attempt.                *)
C17_BoundedRootRetries ==
    /\ \A d \in delay_tasks :
           d.type = "ReadTableMetaAsync" => d.retry_times <= tera_sdk_retry_times
    /\ root_empty_count <= tera_sdk_retry_times + 1

Turned ==
    {k \in DOMAIN tablet_meta_list_' :
        /\ tablet_meta_list_'[k].status = "UPDATING"
        /\ k \notin DOMAIN tablet_meta_list_ \/ tablet_meta_list_[k].status # "UPDATING"}
ScansOn(k) ==
    {sc \in meta_scans \cup {d \in delay_tasks : d.type = "ScanMetaTableAsyncInLock"} :
        /\ KeyLeq(sc.key_start, k)
        /\ sc.key_end = <<>> \/ KeyLess(k, sc.key_end)}
OneRun(sc) ==
    LET keys == SortKeys(Turned)
        last == tablet_meta_list_'[keys[Len(keys)]]
    IN  /\ sc.key_start = keys[1]
        /\ \A i \in 1..(Len(keys) - 1) : tablet_meta_list_'[keys[i]].key_end = keys[i + 1]
        /\ sc.key_end = last.key_end
        /\ \A k \in DOMAIN tablet_meta_list_' :
               tablet_meta_list_'[k].status = "WAIT_UPDATE" => KeyLess(sc.key_start, k)
        /\ sc.key_end # <<>> /\ sc.key_end \in DOMAIN tablet_meta_list_'
           => tablet_meta_list_'[sc.key_end].status # "WAIT_UPDATE"

(* C15: a step issues at most one scan of the meta table; when nodes       *)
(* become UPDATING in it they are one run of adjacent nodes that starts at *)
(* the lowest WAIT_UPDATE node and ends where the next node is not         *)
(* adjacent or not WAIT_UPDATE, and the one scan issued has the range of   *)
(* that run; and every UPDATING node is in the range of exactly one scan   *)
(* that is in flight or waits for its retry.                               *)
C15_OneScanPerRun ==
    /\ [](\A k \in DOMAIN tablet_meta_list_ :
              tablet_meta_list_[k].status = "UPDATING" => Cardinality(ScansOn(k)) = 1)
    /\ [][/\ Cardinality(meta_scans' \ meta_scans) <= 1
          /\ Turned # {} => \E sc \in meta_scans' \ meta_scans : OneRun(sc)]_vars

(* Two adjacent nodes are UPDATING and one scan covers both.               *)
C15_Witness ==
    \E k, j \in DOMAIN tablet_meta_list_ :
        /\ tablet_meta_list_[k].status = "UPDATING"
        /\ tablet_meta_list_[j].status = "UPDATING"
        /\ tablet_meta_list_[k].key_end = j
        /\ meta_scans = {[key_start |-> k, key_end |-> tablet_meta_list_[j].key_end,
                          expand_key_end |-> <<>>]}

Inserted ==
    {k \in DOMAIN tablet_meta_list_' :
        /\ tablet_meta_list_'[k].status = "NORMAL"
        /\ \/ k \notin DOMAIN tablet_meta_list_
           \/ tablet_meta_list_[k].status # "NORMAL"
           \/ tablet_meta_list_[k].update_time # tablet_meta_list_'[k].update_time
           \/ tablet_meta_list_[k].key_end # tablet_meta_list_'[k].key_end
           \/ tablet_meta_list_[k].server_addr # tablet_meta_list_'[k].server_addr}
InNewNode(row, k) ==
    /\ KeyLeq(k, row)
    /\ tablet_meta_list_'[k].key_end = <<>> \/ KeyLess(row, tablet_meta_list_'[k].key_end)
SentNext(id, server_addr) ==
    \/ /\ server_addr \in DOMAIN mutation_batch_map_'
       /\ id \in SeqSet(mutation_batch_map_'[server_addr].row_id_list)
    \/ /\ server_addr \in DOMAIN reader_batch_map_'
       /\ id \in SeqSet(reader_batch_map_'[server_addr].row_id_list)
    \/ \E rpc \in rpcs' : rpc.server_addr = server_addr /\ id \in SeqSet(rpc.ids)
Woken(row, k) ==
    /\ row \notin DOMAIN pending_task_id_list_'
    /\ \A id \in SeqSet(pending_task_id_list_[row]) \cap task_pool_ :
           /\ id \in task_pool_'
           /\ SentNext(id, tablet_meta_list_'[k].server_addr)
           /\ task'[id].meta_timestamp = tablet_meta_list_'[k].update_time

(* C16: in a step that puts new NORMAL nodes into tablet_meta_list_, the   *)
(* entry of every pending row inside the range of a new node is removed    *)
(* from pending_task_id_list_ and each of its tasks still in task_pool_ is *)
(* in a batch or an RPC for the server of the node, with the update_time   *)
(* of the node as meta timestamp; the entries of the rows outside every    *)
(* new node are as before.                                                 *)
C16_WakeUpInRange ==
    [][Inserted # {} =>
           \A row \in DOMAIN pending_task_id_list_ :
               IF \E k \in Inserted : InNewNode(row, k)
               THEN \A k \in Inserted : InNewNode(row, k) => Woken(row, k)
               ELSE /\ row \in DOMAIN pending_task_id_list_'
                    /\ pending_task_id_list_'[row] = pending_task_id_list_[row]]_vars

(* The first answer of the meta table has brought one NORMAL node: a task  *)
(* under it is on its way to the server of the node, a task outside still  *)
(* waits.                                                                  *)
C16_Witness ==
    /\ answer.kind = "meta" /\ answer.codes = <<"kTabletNodeOk">>
    /\ clock = 0
    /\ \E k \in DOMAIN tablet_meta_list_ :
           /\ \A j \in DOMAIN tablet_meta_list_ :
                  tablet_meta_list_[j].status = "NORMAL" <=> j = k
           /\ \E id \in task_pool_ :
                  /\ KeyLeq(k, task[id].row)
                  /\ KeyLess(task[id].row, tablet_meta_list_[k].key_end)
                  /\ SentTo(id, tablet_meta_list_[k].server_addr)
                  /\ task[id].meta_timestamp = tablet_meta_list_[k].update_time
           /\ \E row \in DOMAIN pending_task_id_list_ :
                  /\ KeyLeq(tablet_meta_list_[k].key_end, row)
                  /\ SeqSet(pending_task_id_list_[row]) \cap task_pool_ # {}

RetryKind == [write |-> "DistributeMutationsById", read |-> "DistributeReadersById"]
FailedRows(codes) ==
    {i \in 1..Len(answer.ids) : answer.codes[i] \in codes /\ answer.ids[i] \in task_pool_}
Tier(rows, retry_times) ==
    {answer.ids[i] : i \in {j \in rows : task[answer.ids[j]].retry_times = retry_times}}
RetryTasksOf(id) ==
    {d \in delay_tasks : d.type = RetryKind[answer.kind] /\ id \in SeqSet(d.ids)}
DelayedByTier(rows) ==
    \A i \in rows :
        LET id == answer.ids[i]
            retry_times == task[id].retry_times
        IN  /\ Cardinality(RetryTasksOf(id)) = 1
            /\ \A d \in RetryTasksOf(id) :
                   /\ SeqSet(d.ids) = Tier(rows, retry_times)
                   /\ d.delay = Pow(tera_sdk_delay_send_internal, retry_times) * 1000

(* C10 as amended: after MutateCallBack or ReaderCallBack the rows of the  *)
(* answer that failed with a connect error or a transient server error are *)
(* in one delayed task per retry count, with the delay                     *)
(* 1000 * tera_sdk_delay_send_internal^retry_times ms; the rows that were  *)
(* out of range are in no delayed task: they are distributed again at      *)
(* once, and wait for the meta update or are sent.                         *)
C10_RetryTiers ==
    answer.kind \in {"write", "read"} =>
        /\ DelayedByTier(FailedRows({"kTabletNodeIsBusy", "kConnectError"}))
        /\ \A i \in FailedRows({"kKeyNotInRange"}) :
               /\ RetryTasksOf(answer.ids[i]) = {}
               /\ Waiting(answer.ids[i]) \/ InFlight(answer.ids[i])

(* C10 as claimed: every row that failed with a retryable error, a range   *)
(* mismatch included, is in one delayed task per retry count.              *)
C10_AllRetriesDelayed ==
    answer.kind \in {"write", "read"} => DelayedByTier(FailedRows(RetryCodes))

(* Two rows of one answer failed with different retry counts and are in    *)
(* two delayed tasks with different delays.                                *)
C10_Witness ==
    /\ answer.kind = "write"
    /\ \E i, j \in FailedRows({"kTabletNodeIsBusy", "kConnectError"}) :
           /\ task[answer.ids[i]].retry_times = 1
           /\ task[answer.ids[j]].retry_times = 2
           /\ \E d \in RetryTasksOf(answer.ids[i]) : d.delay = 2000
           /\ \E d \in RetryTasksOf(answer.ids[j]) : d.delay = 4000

(***************************************************************************)
(* GetTabletMetaNodeForKey on every cache of up to MaxNodes tablets.       *)
(***************************************************************************)
InitLookup ==
    /\ IdleGc
    /\ IdleTablet
    /\ IdleMore
    /\ IdleLookup
    /\ async_blocking = FALSE
    /\ clock = 0
    /\ sdk_aborted = FALSE
    /\ meta_table = OneTablet
    /\ fails_left = 0
    /\ ColdTasks
    /\ KnownRoot
    /\ IdleOpen
    /\ tablet_meta_list_ \in {LkList(ends) : ends \in LkCaches}

NextLookup == \E key \in LkKeys : Lookup(key)

SpecLookup == InitLookup /\ [][NextLookup]_vars

LkCovers(start) ==
    /\ KeyLeq(start, lk_key)
    /\ \A other \in DOMAIN tablet_meta_list_ :
           KeyLeq(other, lk_key) => KeyLeq(other, start)
    /\ \/ tablet_meta_list_[start].key_end = <<>>
       \/ KeyLess(lk_key, tablet_meta_list_[start].key_end)

(* C4: GetTabletMetaNodeForKey(key) returns the node with the greatest     *)
(* start <= key when its end is "" or key < end, and no node otherwise.    *)
C4_LookupFindsCoveringNode ==
    lk_result # <<>> =>
        IF \E start \in DOMAIN tablet_meta_list_ : LkCovers(start)
        THEN lk_result[1].found /\ LkCovers(lk_result[1].start)
        ELSE ~lk_result[1].found

(* A lookup of the very end key of the first of two cached tablets, which  *)
(* the second tablet does not cover either.                                *)
C4_Witness ==
    /\ lk_result # <<>> /\ ~lk_result[1].found
    /\ Cardinality(DOMAIN tablet_meta_list_) = 2
    /\ \E start \in DOMAIN tablet_meta_list_ : tablet_meta_list_[start].key_end = lk_key

(***************************************************************************)
(* The calls that set the status of one tablet.                            *)
(***************************************************************************)
InitTablet ==
    /\ IdleGc
    /\ IdleLookup
    /\ async_blocking = FALSE
    /\ IdleSdk
    /\ IdleTablet
    /\ IdleMore

NextTablet ==
    \/ \E new_status \in TabletStatus : SetStatus(new_status)
    \/ \E new_status, if_status \in TabletStatus : SetStatusIf(new_status, if_status)
    \/ \E server_addr \in TabletAddrs : \E new_status, if_status \in TabletStatus :
           SetAddrAndStatusIf(server_addr, new_status, if_status)

SpecTablet == InitTablet /\ [][NextTablet]_vars

IfCalls == {"SetStatusIf", "SetAddrAndStatusIf"}

WaitedTablets == IF gc_tablets_.present THEN gc_tablets_.first ELSE {}
Candidates ==
    IF gc_live_files_.present
    THEN {f \in Files : <<f[1], f[3]>> \in gc_live_files_.files[f[2]]}
    ELSE {}
DeadDirs == tdirs \ Live
Collects ==
    LET all_ready == \A t \in Live : tstate[t] = "ready"
    IN  /\ Candidates' = IF all_ready THEN {f \in disk : f[1] \in DeadDirs} ELSE {}
        /\ WaitedTablets' = IF all_ready /\ DeadDirs # {} THEN Live ELSE {}
Reports(s) ==
    /\ ResponseHasInh(s)
    /\ Candidates' = Candidates \ ResponseInh(s)
    /\ WaitedTablets' = WaitedTablets \ ResponseMeta(s)
C30_BatchDeletesCollectedMinusInherited ==
    [][strategy = "batch" =>
          /\ deleted' # deleted =>
                 /\ WaitedTablets = {}
                 /\ deleted' = deleted \cup Candidates
          /\ (Candidates' # Candidates \/ WaitedTablets' # WaitedTablets) =>
                 (Collects \/ \E s \in Servers : Reports(s))]_vars

(* A round has deleted files of a dead tablet and spared one that a live   *)
(* tablet reported as inherited.                                           *)
C30_Witness ==
    /\ strategy = "batch"
    /\ gc_tablets_.present
    /\ WaitedTablets = {}
    /\ Candidates # {}
    /\ Candidates \subseteq deleted
    /\ \E f \in disk : f[1] \in DeadDirs /\ \E t \in Live : f \in inh[t]

(***************************************************************************)
(* The methods of the GcStrategy on their threads.                         *)
(***************************************************************************)
NextGcLock ==
    \/ Tick
    \/ \E t \in Tablets, f \in Files : CompactTablet(t, f)
    \/ \E th \in GcThreads, m \in {"PreQuery", "PostQuery", "ProcessQueryCallbackForGc", "Clear"} :
           GcEnter(th, m)
    \/ \E th \in GcThreads : GcLeave(th)
    \/ GcInside("timer", "PreQuery") /\ BatchPreQuery
    \/ GcInside("query", "ProcessQueryCallbackForGc") /\ \E s \in Servers : BatchProcessQueryCallbackForGc(s)
    \/ GcInside("timer", "PostQuery") /\ BatchPostQuery
    \/ GcInside("timer", "PreQuery") /\ IncPreQuery
    \/ GcInside("query", "ProcessQueryCallbackForGc") /\ \E s \in Servers : IncProcessQueryCallbackForGc(s)
    \/ GcInside("timer", "PostQuery") /\ IncPostQuery
    \/ GcInside("drop", "Clear") /\ IncClear

SpecGcLock == InitRounds /\ [][NextGcLock]_vars

(* C21: a thread that is inside a GcStrategy method that reads or writes   *)
(* the maps of the strategy holds gc_mutex_, and the timer thread is never *)
(* inside PreQuery or PostQuery while another thread is inside             *)
(* ProcessQueryCallbackForGc or Clear.                                     *)
C21_GcStateUnderMutex ==
    /\ \A th \in GcThreads :
           (gc_pc[th] # "" /\ TouchesGcState(gc_pc[th])) => gc_mutex_ = th
    /\ gc_pc["timer"] # "" =>
           \A th \in {"query", "drop"} : gc_pc[th] = "" \/ ~TouchesGcState(gc_pc[th])


(***************************************************************************)
(* A tablet server starts with one of the three adapters while the         *)
(* safemode mark and the root tablet node exist or not, and the cluster    *)
(* makes up to MaxZkOps changes.                                           *)
(***************************************************************************)
InitCoord ==
    /\ IdleGc
    /\ async_blocking = FALSE
    /\ IdleSdk
    /\ IdleLookup
    /\ IdleTablet /\ IdleLock /\ IdleClient /\ IdleAvg /\ IdleTio
    /\ zk \in {[NoStore EXCEPT !.nodes = m, !.root_value = IF "root" \in m THEN "ts0" ELSE ""] :
                  m \in SUBSET {"safemode", "root"}}
    /\ ts_node \in {NewNodeProcess(impl) : impl \in {"zk", "fake", "ins"}}

NextCoord ==
    \/ ZkInit
    \/ ZkGetSessionId
    \/ ZkRegister
    \/ ZkWatchSelfNode
    \/ ZkWatchKickMark
    \/ ZkWatchSafeModeMark
    \/ ZkWatchRootNode
    \/ \E written \in BOOLEAN : FakeInit(written)
    \/ InsLock
    \/ InsWatchKick
    \/ InsWatchLock
    \/ InsWatchMeta
    \/ DeliverEvent
    \/ DeliverSessionTimeout
    \/ \E path \in CoordPaths, value \in RootValues : ZkCreate(path, value)
    \/ \E path \in CoordPaths : ZkDelete(path)
    \/ \E value \in RootValues : ZkSetRoot(value)
    \/ SessionExpires
    \/ \E path \in CoordPaths : WatchFails(path)

SpecCoord == InitCoord /\ [][NextCoord]_vars

(* Every event has been handed to the adapter. *)
AllDelivered ==
    /\ zk.events = <<>>
    /\ (ts_node.impl = "zk" /\ zk.session = "lost") => zk.last_event.type = "session_timeout"

(* C22: the step that hands a session timeout or a failed watch to the     *)
(* adapter (for the "ins" adapter, the loss of its lock) ends the process; *)
(* an ended process takes no further step, and a lost session is never     *)
(* established again.                                                      *)
C22_ExitOnSessionLoss ==
    /\ [](zk.last_event.type \in {"session_timeout", "watch_failed"} => ts_node.exited)
    /\ []((ts_node.impl = "ins" /\ zk.last_event.path = "self" /\ zk.last_event.type = "deleted")
              => ts_node.exited)
    /\ [][ts_node.exited => ts_node' = ts_node]_vars
    /\ [][zk.session = "lost" => zk'.session = "lost"]_vars

(* The session of a running server expired and OnSessionTimeout ended it. *)
C22_Witness ==
    /\ ts_node.exited
    /\ ts_node.status = "kIsRunning"
    /\ ts_node.log = "zk session timeout!"
    /\ zk.session = "lost"

(* C23: once a registered server has finished Init and every event has     *)
(* been handed to its adapter, the server has exited if its serve node is  *)
(* gone or its kick mark exists, whichever adapter it runs.                *)
C23_ExitOnSelfDeletedOrKicked ==
    (/\ ts_node.registered
     /\ ts_node.pc = "done"
     /\ AllDelivered
     /\ ("self" \notin zk.nodes \/ "kick" \in zk.nodes)) => ts_node.exited

(* C24: once a server has finished Init and every event has been handed    *)
(* to its adapter, it is in safe mode exactly if the safemode mark exists. *)
C24_SafeModeFollowsMark ==
    (/\ ts_node.pc = "done"
     /\ ~ts_node.exited
     /\ AllDelivered) => (ts_node.safe_mode <=> "safemode" \in zk.nodes)


(***************************************************************************)
(* UpdateTable with every descriptor on a table in every state, with the   *)
(* online schema update enabled or not, each RPC arriving or failing.      *)
(***************************************************************************)
InitClient ==
    /\ IdleGc
    /\ async_blocking = FALSE
    /\ IdleSdk
    /\ IdleLookup
    /\ IdleTablet /\ IdleLock /\ IdleCoord /\ IdleAvg /\ IdleTio
    /\ online_schema_update_enabled \in BOOLEAN
    /\ master_table \in {NoMasterTable} \cup
           {[exists |-> TRUE, status |-> st, schema |-> sc] :
                st \in {"kTableEnable", "kTableDisable"}, sc \in Schemas}
    /\ update_call = NoUpdateCall

NextClient ==
    \/ \E desc \in Schemas, ok1, ok2, ok3, ok4 \in BOOLEAN, status \in UpdateStatus :
           ClientUpdateTable(desc, ok1, ok2, ok3, ok4, status)
    \/ \E status \in {"kTableEnable", "kTableDisable"} : SetTableStatus(status)
    \/ DropTable
    \/ \E desc \in Schemas : CreateTable(desc)

SpecClient == InitClient /\ [][NextClient]_vars

(* C25: with the online schema update disabled, an UpdateTable on a table  *)
(* that is enabled, with a schema that differs in locality groups or       *)
(* column families, returns false with kBadParam and sends no UpdateTable  *)
(* RPC.                                                                    *)
C25_NoUpdateOfEnabledTable ==
    (/\ update_call.called
     /\ ~online_schema_update_enabled
     /\ update_call.enabled
     /\ (update_call.lg_diff \/ update_call.cf_diff))
        => (~update_call.ret /\ update_call.err = "kBadParam" /\ ~update_call.sent)


(***************************************************************************)
(* FindAverageKey on every pair of keys of up to MaxKeyLen bytes with      *)
(* start <= end, and on every start with the empty end.                    *)
(***************************************************************************)
InitAvg ==
    /\ IdleGc
    /\ async_blocking = FALSE
    /\ IdleSdk
    /\ IdleLookup
    /\ IdleTablet /\ IdleLock /\ IdleCoord /\ IdleClient /\ IdleTio
    /\ fa_start \in KeysUpTo(MaxKeyLen)
    /\ fa_end \in {e \in KeysUpTo(MaxKeyLen) : e = <<>> \/ fa_start = e \/ BytesLess(fa_start, e)}
    /\ fa_out = NoAverage

NextAvg == CallFindAverageKey

SpecAvg == InitAvg /\ [][NextAvg]_vars

(* C26: when FindAverageKey returns true, the result is greater than start *)
(* and, unless end is empty, less than end.                                *)
C26_AverageStrictlyBetween ==
    (fa_out.called /\ fa_out.ret) =>
        /\ BytesLess(fa_start, fa_out.ave)
        /\ (fa_end = <<>> \/ BytesLess(fa_out.ave, fa_end))

(* The average had to be carried down past the first differing byte. *)
C26_Witness ==
    /\ fa_out.called /\ fa_out.ret
    /\ fa_end # <<>>
    /\ Len(fa_out.ave) > Len(fa_start)
    /\ Len(fa_out.ave) > Len(fa_end)

KeyBetween(start, end) ==
    \E k \in KeysUpTo(MaxKeyLen + 1) :
        BytesLess(start, k) /\ (end = <<>> \/ BytesLess(k, end))
ZeroPadded(start, end) ==
    /\ Len(end) > Len(start)
    /\ \A i \in 1..Len(end) : end[i] = IF i <= Len(start) THEN start[i] ELSE 0

InitTio ==
    /\ IdleGc
    /\ async_blocking = FALSE
    /\ IdleSdk
    /\ IdleLookup
    /\ IdleTablet /\ IdleLock /\ IdleCoord /\ IdleClient /\ IdleAvg
    /\ tio_files = [n \in 1..3 |-> <<>>]
    /\ tio_tablets \in
           {[h \in TioObjects |-> NewTabletIO(h, IF h = "t" THEN key_start ELSE <<>>,
                                                 IF h = "t" THEN key_end ELSE <<>>)] :
                key_start \in {<<>>, <<1>>}, key_end \in {<<>>, <<255>>}}
    /\ tio_split = NoSplit
    /\ tio_read = NoRead
    /\ tio_written = [k \in TioKeys |-> ""]

NextTio ==
    \/ \E h \in TioObjects : TioLoad(h)
    \/ \E h \in TioObjects, key \in TioKeys, value \in TioValues : WriteOne(h, key, value)
    \/ \E h \in TioObjects, key \in TioKeys : WriteDelete(h, key)
    \/ \E h \in TioObjects, key \in TioKeys : TioReadKey(h, key)
    \/ \E h \in TioObjects : TioUnload(h)
    \/ TioSplit

SpecTio == InitTio /\ [][NextTio]_vars

(* What a Read of the key has to return. *)
ReadsWritten(rd) ==
    IF tio_written[rd.key] = ""
    THEN ~rd.ret
    ELSE rd.ret /\ rd.value = tio_written[rd.key]

IncTrackedLgs ==
    IF strategy = "incr" /\ dead_tablet_files_.present
    THEN {<<t, lg>> \in Tablets \X Lgs :
            /\ t \in DOMAIN dead_tablet_files_.tablets
            /\ lg \in DOMAIN dead_tablet_files_.tablets[t].files}
    ELSE {}

(* C31: for every tracked dead tablet and locality group, live_files_ is a *)
(* subset of storage_files_ in every reachable state, and neither the      *)
(* CHECK of ProcessQueryCallbackForGc nor the assert of DeleteTableFiles   *)
(* fires.                                                                  *)
C31_LiveFilesAreStorageFiles ==
    strategy = "incr" =>
        /\ ~gc_crashed
        /\ \A d \in IncTrackedLgs :
               dead_tablet_files_.tablets[d[1]].files[d[2]].live
                   \subseteq dead_tablet_files_.tablets[d[1]].files[d[2]].storage

(* A server reported an inherited file of a tracked dead tablet after      *)
(* DeleteTableFiles had deleted another file of a dead tablet.             *)
C31_Witness ==
    /\ strategy = "incr"
    /\ deleted # {}
    /\ \E d \in IncTrackedLgs : dead_tablet_files_.tablets[d[1]].files[d[2]].live # {}


(* C39: IncrementalGcStrategy::PreQuery returns false when there is no     *)
(* dead tablet, and returns true only when at least one dead tablet is     *)
(* tracked.                                                                *)
C39_PreQueryTrueOnlyWithDeadTablets ==
    [][IncPreQuery =>
          (IncPreQueryReturns(dead_tablet_files_') <=>
               DOMAIN dead_tablet_files_'.tablets # {})]_vars


(* C40: the adapter never sets the root tablet address of the tablet       *)
(* server to an empty string: a known root address is never replaced by an *)
(* empty one.                                                              *)
C40_RootAddrNeverEmptied ==
    [][ts_node.root_tablet_addr # "" => ts_node'.root_tablet_addr # ""]_vars


(***************************************************************************)
(* A client that restores a cookie and then writes, while the tablets of   *)
(* the table change and the meta table is scanned for the cache misses and *)
(* for the callers of ScanMetaTable.                                       *)
(***************************************************************************)
InitCache ==
    /\ IdleGc
    /\ IdleLookup
    /\ IdleTablet
    /\ IdleMore
    /\ async_blocking = FALSE
    /\ clock = 0
    /\ sdk_aborted = FALSE
    /\ meta_table \in CacheLayouts
    /\ fails_left = 0
    /\ tablet_meta_list_ \in {RestoreCookie(EmptyMap, cookie) : cookie \in Cookies}
    /\ ColdTasks
    /\ KnownRoot
    /\ IdleOpen

NextCache ==
    \/ \E layout \in CacheLayouts : MetaTableChanges(layout)
    \/ UserWrites
    \/ \E d \in delay_tasks : RunScanMetaTableAsyncInLock(d)
    \/ \E scan \in meta_scans : \E resp \in MetaResponses(scan) :
           ScanMetaTableDone(scan, resp)
    \/ \E r \in MetaCallRanges : ScanMetaTable(r[1], r[2])
    \/ ScanMetaTableReturns

SpecCache == InitCache /\ [][NextCache]_vars

(* The ranges of two nodes do not overlap. *)
NonOverlapping(list) ==
    \A a, b \in DOMAIN list :
        KeyLess(a, b) => (list[a].key_end # <<>> /\ KeyLeq(list[a].key_end, b))

(* C32: the nodes of tablet_meta_list_ have pairwise non-overlapping key   *)
(* ranges, every node is stored under its own range start, and the         *)
(* CHECK_GT of UpdateMetaAsync holds.                                      *)
C32_CacheNodesDisjoint ==
    /\ NonOverlapping(tablet_meta_list_)
    /\ \A k \in DOMAIN tablet_meta_list_ : tablet_meta_list_[k].key_start = k
    /\ CheckGtHolds(tablet_meta_list_)

(* An old node of server ts1 was cut around a new node of server ts2: the  *)
(* first node ends and the last node starts where the new one starts and   *)
(* ends.                                                                   *)
C32_Witness ==
    \E a, b, c \in DOMAIN tablet_meta_list_ :
        /\ KeyLess(a, b) /\ KeyLess(b, c)
        /\ tablet_meta_list_[a].key_end = b
        /\ tablet_meta_list_[b].key_end = c
        /\ tablet_meta_list_[a].server_addr = "ts1"
        /\ tablet_meta_list_[c].server_addr = "ts1"
        /\ tablet_meta_list_[b].server_addr = "ts2"


(***************************************************************************)
(* UpdateTabletMetaList on every cache of up to MaxNodes nodes of server   *)
(* ts1, NORMAL or waiting for a refresh, with every tablet of server ts2   *)
(* over the same keys.                                                     *)
(***************************************************************************)
FrameStatus == {"NORMAL", "DELAY_UPDATE"}
FrameCaches ==
    UNION {{[k \in DOMAIN ends |-> NewNode(k, ends[k], "ts1", st[k], 0)] :
               st \in [DOMAIN ends -> FrameStatus]} : ends \in LkCaches}
FrameMetas ==
    {TabletMeta(a, b, "ts2") : a \in LkKeys, b \in {e \in LkKeys : e = <<>>}}
    \cup UNION {{TabletMeta(a, b, "ts2") : b \in {e \in LkKeys : KeyLess(a, e)}} :
                   a \in LkKeys}
ProbeKeys == LkKeys \cup {<<0, 0>>, <<2, 0>>, <<3>>}

InitFrame ==
    /\ IdleGc
    /\ IdleTablet
    /\ IdleMore
    /\ IdleLookup
    /\ async_blocking = FALSE
    /\ clock = 1
    /\ sdk_aborted = FALSE
    /\ meta_table = OneTablet
    /\ fails_left = 0
    /\ ColdTasks
    /\ KnownRoot
    /\ IdleOpen
    /\ tablet_meta_list_ \in FrameCaches

NextFrame == \E new_meta \in FrameMetas : RunUpdateTabletMetaList(new_meta)

SpecFrame == InitFrame /\ [][NextFrame]_vars

InMeta(key, m) ==
    /\ KeyLeq(m.key_start, key)
    /\ m.key_end = <<>> \/ KeyLess(key, m.key_end)

(* The lookup of the key gives a node with the same address, status and    *)
(* update time in both caches, or no node in both.                         *)
SameLookup(before, after, key) ==
    LET b == GetTabletMetaNodeForKey(before, key)
        a == GetTabletMetaNodeForKey(after, key)
    IN  /\ b.found = a.found
        /\ b.found =>
              /\ before[b.start].server_addr = after[a.start].server_addr
              /\ before[b.start].status = after[a.start].status
              /\ before[b.start].update_time = after[a.start].update_time

(* C37: UpdateTabletMetaList(new_meta) changes the lookup result only for  *)
(* keys inside [new_start, new_end): a key outside that was covered is     *)
(* still covered by a node with the same server address, status and        *)
(* update_time, and no key outside becomes newly covered.                  *)
C37_UpdateChangesOnlyItsRange ==
    [][\A new_meta \in FrameMetas :
          RunUpdateTabletMetaList(new_meta) =>
              \A key \in ProbeKeys :
                  ~InMeta(key, new_meta) =>
                      SameLookup(tablet_meta_list_, tablet_meta_list_', key)]_vars

(* An old node of ts1 was split around the new node of ts2: keys on both   *)
(* sides of the new node are still served by ts1.                          *)
C37_Witness ==
    \E a, b, c \in DOMAIN tablet_meta_list_ :
        /\ KeyLess(a, b) /\ KeyLess(b, c)
        /\ tablet_meta_list_[a].key_end = b
        /\ tablet_meta_list_[b].key_end = c
        /\ tablet_meta_list_[a].server_addr = "ts1"
        /\ tablet_meta_list_[a].status = "DELAY_UPDATE"
        /\ tablet_meta_list_[c].server_addr = "ts1"
        /\ tablet_meta_list_[c].status = "DELAY_UPDATE"
        /\ tablet_meta_list_[b].server_addr = "ts2"
        /\ tablet_meta_list_[b].update_time = 1


(***************************************************************************)
(* Mutations that fail up to MaxFail times while the master splits the     *)
(* table and a caller scans the meta table, where thread_pool_ runs every  *)
(* delayed task that is due and every scan of the meta table is answered.  *)
(***************************************************************************)
NextDelay ==
    \/ Tock
    \/ SplitTable
    \/ ApplyMutation(<<1>>, TRUE)
    \/ \E rpc \in rpcs : \E resp \in Responses(rpc, WriteRowCodes) :
           WriteTabletDone(rpc, resp)
    \/ \E d \in delay_tasks : RunDistributeMutationsById(d)
    \/ \E d \in delay_tasks : RunMutationBatchTimeout(d)
    \/ \E d \in delay_tasks : RunDelayUpdateMeta(d)
    \/ \E d \in delay_tasks : RunScanMetaTableAsyncInLock(d)
    \/ \E scan \in meta_scans : \E resp \in MetaResponses(scan) :
           ScanMetaTableDone(scan, resp)
    \/ ScanMetaTable(<<2>>, <<>>)
    \/ ScanMetaTableReturns

(* thread_pool_ runs a task that stays runnable, and an RPC that stays in   *)
(* flight is answered.  Each condition is weak fairness of the handler     *)
(* with its guard written out: the handler is run infinitely often unless  *)
(* infinitely often it has nothing to run.  A handler is run in the step   *)
(* that takes its task off delay_tasks, and an RPC is answered in the step *)
(* that leaves its kind in answer.                                         *)
Runnable(type) ==
    /\ ~sdk_aborted
    /\ \E d \in delay_tasks :
           /\ d.type = type
           /\ type = "DelayUpdateMeta" => clock >= d.due
           /\ type = "ScanMetaTableAsyncInLock" =>
                  (root_table_addr = "" => root_empty_count < MaxRootTry)
Ran(type) ==
    \E d \in delay_tasks : d.type = type /\ d \notin delay_tasks'
ScanPending == ~sdk_aborted /\ meta_scans # {}
WritePending == ~sdk_aborted /\ \E rpc \in rpcs : rpc.kind = "write"
DelayFairness ==
    /\ WF_vars(Tock)
    /\ []<>(~Runnable("DelayUpdateMeta")) \/ []<><<Ran("DelayUpdateMeta")>>_vars
    /\ []<>(~Runnable("ScanMetaTableAsyncInLock"))
           \/ []<><<Ran("ScanMetaTableAsyncInLock")>>_vars
    /\ []<>(~Runnable("MutationBatchTimeout"))
           \/ []<><<Ran("MutationBatchTimeout")>>_vars
    /\ []<>(~Runnable("DistributeMutationsById"))
           \/ []<><<Ran("DistributeMutationsById")>>_vars
    /\ []<>(~ScanPending) \/ []<><<answer'.kind = "meta">>_vars
    /\ []<>(~WritePending) \/ []<><<answer'.kind = "write">>_vars

FairDelay == InitMeta /\ [][NextDelay]_vars /\ DelayFairness

(* A node in DELAY_UPDATE whose delay ends within the modelled time: its    *)
(* DelayUpdateMeta task is due at update_time + the update interval.       *)
DelayedNode(k) ==
    k \in DOMAIN tablet_meta_list_ /\ tablet_meta_list_[k].status = "DELAY_UPDATE"
DelayedInTime(k) == DelayedNode(k) /\ clock < MaxClock

(* C33: every cache node put in DELAY_UPDATE eventually leaves it for      *)
(* WAIT_UPDATE and the scan, also when UpdateTabletMetaList has shrunk or  *)
(* split the node while its DelayUpdateMeta task was pending and when its  *)
(* range end is "".                                                        *)
C33_DelayedNodesRefreshed ==
    \A k \in Rows \cup {<<>>} : DelayedInTime(k) ~> ~DelayedNode(k)

(* C35: each request that raised a flow-control counter lowers it once, so *)
(* a counter is never below 0 and is 0 when no request is outstanding.     *)
C35_CountersReturnToZero ==
    /\ cur_commit_pending_counter_ >= 0
    /\ cur_reader_pending_counter_ >= 0
    /\ task_pool_ = {} =>
           cur_commit_pending_counter_ = 0 /\ cur_reader_pending_counter_ = 0


(***************************************************************************)
(* Batches of mutations and their timers.  thread_pool_ may have started   *)
(* MutationBatchTimeout when PackMutations commits the batch: CancelTask   *)
(* then fails with is_running, the timer waits for mutation_batch_mutex_   *)
(* and runs after PackMutations, maybe after a later batch for the same    *)
(* server was created.                                                     *)
(***************************************************************************)
TimerAtMutex == "MutationBatchTimeout at mutation_batch_mutex_"
TimerTypes == {"MutationBatchTimeout", TimerAtMutex}

EnterMutationBatchTimeout(d) ==
    /\ ~sdk_aborted /\ d \in delay_tasks /\ d.type = "MutationBatchTimeout"
    /\ SdkStep([St EXCEPT !.delay_tasks = (@ \ {d}) \cup {[d EXCEPT !.type = TimerAtMutex]}])

LockedMutationBatchTimeout(d) ==
    /\ ~sdk_aborted /\ d \in delay_tasks /\ d.type = TimerAtMutex
    /\ SdkStep(MutationBatchTimeout(Taken(d), d.server_addr, d.batch_seq))

NextBatch ==
    \/ Tock
    \/ UserWrites
    \/ \E rpc \in rpcs : \E resp \in Responses(rpc, WriteRowCodes) :
           WriteTabletDone(rpc, resp)
    \/ \E id \in TaskIds : MutationExpires(id)
    \/ \E d \in delay_tasks : RunDistributeMutationsById(d)
    \/ \E d \in delay_tasks : RunMutationBatchTimeout(d)
    \/ \E d \in delay_tasks : EnterMutationBatchTimeout(d)
    \/ \E d \in delay_tasks : LockedMutationBatchTimeout(d)
    \/ \E d \in delay_tasks : RunDelayUpdateMeta(d)
    \/ \E d \in delay_tasks : RunScanMetaTableAsyncInLock(d)
    \/ \E scan \in meta_scans : \E resp \in MetaResponses(scan) :
           ScanMetaTableDone(scan, resp)

SpecBatch == InitMeta /\ [][NextBatch]_vars

Batched(map, id) == \E a \in DOMAIN map : id \in SeqSet(map[a].row_id_list)
OwnTimer(d, a) ==
    /\ d.type \in TimerTypes
    /\ d.server_addr = a
    /\ d.batch_seq = mutation_batch_map_[a].sequence_num
StaleTimer(d) ==
    /\ d.type \in TimerTypes
    /\ d.server_addr \in DOMAIN mutation_batch_map_ => ~OwnTimer(d, d.server_addr)
CommitsOnce(id) ==
    /\ task'[id].commit_times = task[id].commit_times + 1
    /\ \E rpc \in rpcs' \ rpcs : rpc.kind = "write" /\ id \in SeqSet(rpc.ids)

(* C34: every id put in a batch is committed once.  A waiting batch has    *)
(* its own timer queued and holds no id twice; the step that takes the id  *)
(* of a task in task_pool_ out of a batch sends it in one RPC and no step  *)
(* commits an id twice; the timer of an earlier batch leaves the batches   *)
(* and the tasks alone.                                                    *)
C34_BatchedIdsCommittedOnce ==
    /\ [](\A a \in DOMAIN mutation_batch_map_ :
              /\ \E d \in delay_tasks : OwnTimer(d, a)
              /\ mutation_batch_map_[a].row_id_list # <<>>
              /\ Cardinality(SeqSet(mutation_batch_map_[a].row_id_list))
                     = Len(mutation_batch_map_[a].row_id_list))
    /\ [][\A id \in task_pool_ \cap task_pool_' :
              /\ task'[id].commit_times - task[id].commit_times \in {0, 1}
              /\ Batched(mutation_batch_map_, id) /\ ~Batched(mutation_batch_map_', id)
                     => CommitsOnce(id)]_vars
    /\ [][\A d \in delay_tasks :
              StaleTimer(d) /\ d \notin delay_tasks'
                  => UNCHANGED <<mutation_batch_map_, rpcs, task>>]_vars

C34_Witness ==
    \E d \in delay_tasks :
        /\ d.type = TimerAtMutex
        /\ d.server_addr \in DOMAIN mutation_batch_map_
        /\ mutation_batch_map_[d.server_addr].sequence_num > d.batch_seq


(* The step in which the failed scan of [key_start, key_end) is answered   *)
(* and GiveupUpdateTabletMeta has run.                                     *)
GiveupStep(scan) ==
    /\ scan \in meta_scans /\ scan \notin meta_scans'
    /\ answer'.kind = "meta" /\ answer'.codes # <<"kTabletNodeOk">>
InGiveupRange(scan, row) ==
    /\ KeyLeq(scan.key_start, row)
    /\ scan.key_end = <<>> \/ KeyLess(row, scan.key_end)

(* C36: after a failed scan GiveupUpdateTabletMeta leaves, in every pending *)
(* list of a row in the range, the ids of the tasks still in task_pool_ in  *)
(* their order and nothing else, and erases the list that became empty.     *)
C36_GiveupRemovesExactlyTimedOut ==
    [][\A scan \in meta_scans :
          GiveupStep(scan) =>
              \A row \in DOMAIN pending_task_id_list_ :
                  InGiveupRange(scan, row) =>
                      LET kept == SeqFilter(pending_task_id_list_[row], task_pool_)
                      IN  IF kept = <<>>
                          THEN row \notin DOMAIN pending_task_id_list_'
                          ELSE /\ row \in DOMAIN pending_task_id_list_'
                               /\ pending_task_id_list_'[row] = kept]_vars


(* A chain of meta scans is alive as the scan in flight or as the delayed  *)
(* ScanMetaTableAsyncInLock that will send its scan again.                 *)
ScanChains ==
    Cardinality(meta_scans)
        + Cardinality({d \in delay_tasks : d.type = "ScanMetaTableAsyncInLock"})

(* C38: meta_updating_count_ is the number of chains of meta scans started *)
(* and not finished, so it is never below 0 and is 0 exactly when no chain *)
(* is left and the callers of ScanMetaTable may return.                    *)
C38_CountIsUnfinishedChains ==
    /\ meta_updating_count_ = ScanChains
    /\ meta_updating_count_ >= 0

C38_Witness ==
    /\ meta_updating_count_ = 2
    /\ meta_callers > 0
    /\ meta_scans # {}
    /\ \E d \in delay_tasks : d.type = "ScanMetaTableAsyncInLock"

====
